---- MODULE Spec2Model ----
(***************************************************************************)
(* FloTalk runtime core and flo_scene routing core.                        *)
(*                                                                         *)
(* Part 1: TalkRuntime (src/src/flotalk/runtime.rs).  A runtime owns the   *)
(* TalkContext inside Arc<futures::lock::Mutex<..>>.  run_continuation     *)
(* returns a future; each poll of it upgrades a Weak to the context,       *)
(* acquires the mutex (try_lock, then an owned lock future kept in         *)
(* acquire_context across polls), runs one step of the continuation under  *)
(* the guard and drops the guard when the poll returns.  Polls of          *)
(* different futures run on different threads, so a poll is split at the   *)
(* points where it touches the shared mutex.                               *)
(***************************************************************************)
EXTENDS Integers, Sequences, FiniteSets, TLC

\* ------------------------------------------------------------ bounds
NumFutures == 2
MaxPending == 1

Futures == 1..NumFutures
TalkValues == {"v"}
RuntimeDropped == "RuntimeDropped"
NoResult == "none"

VARIABLES
    runtime_alive,    \* the TalkRuntime value (one strong Arc) still exists
    locked,           \* IS_LOCKED of the context mutex
    waiters,          \* per future: its slot in the mutex's waiter slab
    pc,               \* per future: where its poll is, or its life-cycle state
    continuation,     \* per future: the continuation given to run_continuation
    acquire_context,  \* per future: acquire_context.is_some()
    guard,            \* per future: it holds an OwnedMutexGuard
    notified,         \* per future: its task has been woken and will be polled
    result,           \* per future: the value its future completed with
    calls             \* per future: invocations of the Soon body / Later poll fn

rtVars == <<runtime_alive, locked, waiters, pc, continuation, acquire_context,
            guard, notified, result, calls>>

VARIABLES
    talk_context,     \* the TalkContext: materialised class callbacks, the allocators, the cell-block table
    held,             \* per reference: copies of it the host program owns
    phase,            \* "idle", or where a clone_in_context / release_in_context pair stands; "new" / "soon" while the context's thread is inside `new` or the Soon body of `subclass`
    cloned,           \* the value last cloned
    before,           \* the context as it was when that clone, or that wrapper, was made
    owned,            \* the value inside the TalkOwned wrapper being followed
    owned_state,      \* life cycle of that wrapper
    retrieved         \* the last retrieve(handle) and how it ended

refVars == <<talk_context, held, phase, cloned, before, owned, owned_state, retrieved>>

VARIABLES
    message_action,   \* the dispatch table: signature id -> bound action, or NoAction
    not_supported,    \* the table's not-supported action
    defined,          \* per signature id: the action of the most recent definition
    sent              \* the last send_message / try_send_message and what it did

dispatchVars == <<message_action, not_supported, defined, sent>>

VARIABLES
    class_callbacks,  \* the TalkClassContextCallbacks of one class in one context, once created
    allocator,        \* that class's allocator: the data behind each handle
    allocator_poisoned, \* the allocator's std Mutex is poisoned: a holder of its guard panicked
    delivered         \* the last message sent through those callbacks and where it went

classVars == <<class_callbacks, allocator, allocator_poisoned, delivered>>

VARIABLES
    chain_head,       \* the continuation a chain was built on
    chain_fns,        \* the functions chained onto a continuation with and_then_if_ok / and_then_soon_if_ok
    chain_current,    \* what is left to resolve of the continuation at the head of the chain
    chain_next,       \* the function of the chain the value reaches next
    chain_calls,      \* per function of the chain: how often it was called
    chain_result      \* the value the whole chain resolved to

chainVars == <<chain_head, chain_fns, chain_current, chain_next, chain_calls, chain_result>>

VARIABLES
    next_signature_id,  \* NEXT_SIGNATURE_ID
    id_for_signature,   \* ID_FOR_SIGNATURE: pairs <<signature, id>>
    signature_for_id,   \* SIGNATURE_FOR_ID: pairs <<id, signature>>
    id_lock,            \* the thread that has the ID_FOR_SIGNATURE guard
    sig_pc,             \* where each thread is in id()
    sig_arg,            \* the signature each thread is interning
    sig_new_id,         \* new_id of each thread
    returned,           \* every <<signature, id>> that id() has returned
    converted           \* every <<id, signature>> that to_signature() has returned

sigVars == <<next_signature_id, id_for_signature, signature_for_id, id_lock, sig_pc,
             sig_arg, sig_new_id, returned, converted>>

VARIABLES
    NEXT_CLASS_ID,      \* the id to assign to the next class
    CLASS_DEFINITIONS,  \* vector of Option<definition>, indexed by class id
    CLASS_CALLBACKS,    \* vector of Option<callbacks>, indexed by class id
    definitions_lock,   \* the thread that has the CLASS_DEFINITIONS guard
    callbacks_lock,     \* the thread that has the CLASS_CALLBACKS guard
    create_pc,          \* where each thread is in create()
    create_idx,         \* idx of each thread
    create_definition,  \* the definition each thread is registering
    create_log          \* what every finished create() returned, in order

registryVars == <<NEXT_CLASS_ID, CLASS_DEFINITIONS, CLASS_CALLBACKS, definitions_lock,
                  callbacks_lock, create_pc, create_idx, create_definition, create_log>>

VARIABLES
    input_core,     \* per consumer: its InputStreamCore
    output_sink,    \* per producer: the OutputSinkCore of its sink
    connections,    \* the router's rules: records [source, target]
    connects,       \* connect_programs calls so far
    send_pc,        \* per producer: where its send stands
    next_message,   \* per producer: the number of the message it sends next
    received        \* per consumer and producer: the numbers of the messages read, in order

sceneVars == <<input_core, output_sink, connections, connects, send_pc, next_message,
               received>>

VARIABLES
    receivers,      \* EventSubscribers.receivers: the subscribed programs, in order
    ended,          \* the programs that have ended
    last_send,      \* the last broadcast: the list before it, the results, what it returned
    subscribers_pc, \* where EventSubscribers::send is: "idle" or "join_all"
    join_all        \* per sender of the broadcast in progress: "Pending", "Ok" or "Err"

subscriberVars == <<receivers, ended, last_send, subscribers_pc, join_all>>

VARIABLES
    body,           \* per subprogram: what its body does with its input stream
    awake,          \* the subprograms the scene has yet to poll
    inbox,          \* per subprogram: the messages waiting in its input stream
    messages_sent,  \* messages sent between subprograms so far
    idle_inbox,     \* the IdleRequests waiting in the idle program's input stream
    when_idle,      \* the targets the idle program is to notify
    idle_requests,      \* per target: the IdleRequests sent for it
    notifications        \* per target: the IdleNotifications sent to it

idleVars == <<body, awake, inbox, messages_sent, idle_inbox, when_idle, idle_requests, notifications>>

VARIABLES
    IDS_FOR_NAMES,  \* the static map from a name to its id
    NAMES_FOR_IDS,  \* the static vector of the names, indexed by id
    name_call,      \* per thread: where its call of id_for_name is
    named,          \* the <<name, id>> of every call of SubProgramId::called that returned
    round_trips,    \* every id that was serialised and deserialised, with what came back
    name_calls      \* the calls made so far

nameVars == <<IDS_FOR_NAMES, NAMES_FOR_IDS, name_call, named, round_trips, name_calls>>

VARIABLES
    SERIALIZABLE_MESSAGE_TYPE_NAMES,  \* the static map from a message type to its type name
    SEND_SERIALIZED,            \* the static map from (serialized type, type name) to the sink's message type
    CREATE_ANY_SERIALIZER,      \* the serializers that install_serializer knows
    TYPED_SERIALIZERS,          \* the (source, target) pairs that have a conversion
    FILTERS_FOR_TYPE,           \* the static map of serializer_filter: (source, target) to handle
    install_FILTERS_FOR_TYPE,   \* the static map inside install_serializers: (message type, serializer) to handles
    next_filter_handle,         \* the handle of the next filter
    installing,                 \* per thread: where its call of install_serializers is
    first_type,                 \* per type name: the message type it was registered for first
    resolved,                   \* the <<type name, message type>> of every sink send_serialized made
    filters,                    \* the filters that the calls created and returned
    installs                    \* the calls made so far, install_serializer apart

serializationVars == <<SERIALIZABLE_MESSAGE_TYPE_NAMES, SEND_SERIALIZED, CREATE_ANY_SERIALIZER, TYPED_SERIALIZERS,
                       FILTERS_FOR_TYPE, install_FILTERS_FOR_TYPE, next_filter_handle, installing, first_type,
                       resolved, filters, installs>>

VARIABLES
    serializer_input,     \* the messages the serializer filter has read
    serializer_output,    \* the messages the serializer filter has emitted
    deserializer_input,   \* the messages the deserializer filter has read
    deserializer_output   \* the messages the deserializer filter has emitted

filterVars == <<serializer_input, serializer_output, deserializer_input, deserializer_output>>

VARIABLE
    from_message_call     \* the last call of from_message: the native type, the message and the result

converterVars == <<from_message_call>>

VARIABLES
    display_pc,       \* where display_command_responses is
    display_output,   \* the frames it has written
    display_polls,    \* what the polls of its inner loop gave, and the length of the output then
    displaying,       \* the response taken from the input whose frame is not written yet, or NoResponse
    command_lines,    \* the lines written to the connection
    write_shutdown,   \* the writer has shut the connection down
    parser,           \* parse_command_stream: its state, the lines it has read, the commands it has yielded
    commands,         \* the stream from the parser to the command processor
    processor,        \* CommandProcessor: its state, the commands it has read, the responses it has sent
    responses         \* the stream from the command processor to the display

commandVars == <<display_pc, display_output, display_polls, displaying, command_lines, write_shutdown, parser, commands,
                 processor, responses>>

VARIABLES
    soon_parent       \* the parent held by the Soon continuation of a `subclass` that has not run, or NoSuperclass

subclassVars == <<soon_parent>>

VARIABLES
    sink_core,        \* the OutputSinkCore that the retargets work on
    sink_lock,        \* the thread that holds the sink's mutex
    retarget_pc,      \* per thread: where its retarget stands
    retarget_call,    \* per thread: the retarget it is in
    retargets,        \* the retargets that have returned, in order: the call, the target left, the waker returned
    parks             \* the wakers that the sender has stored so far

retargetVars == <<sink_core, sink_lock, retarget_pc, retarget_call, retargets, parks>>

VARIABLES
    allocator_lock,     \* the mutex of the class's allocator is held
    readers_lock,       \* the mutex of CLASS_DATA_READERS is held
    CLASS_DATA_READERS, \* the target types that the class has a data reader for
    user_code,          \* the code of the class definition or of the host that is running, and the handle it was given
    user_stuck,         \* "no", or how that code came to a stop on a mutex
    user_log,           \* what has been called so far, in order
    readers_poisoned    \* the std Mutex of CLASS_DATA_READERS is poisoned: a holder of its guard panicked

allocatorVars == <<allocator_lock, readers_lock, CLASS_DATA_READERS, user_code, user_stuck, user_log, readers_poisoned>>

VARIABLES
    pipe_pc,          \* where the continuation of talk_pipe_stream is
    pipe_source,      \* the items of the source stream not yet read
    pipe_taken,       \* the items read from the source stream, in order
    pipe_value,       \* the result of the conversion that is to be sent
    pipe_channel,     \* the items in the channel
    pipe_result,      \* the items read from the result stream, in order
    pipe_receiver     \* the receiver of the channel: "open", or "dropped" by its owner

pipeVars == <<pipe_pc, pipe_source, pipe_taken, pipe_value, pipe_channel, pipe_result, pipe_receiver>>

vars == <<rtVars, refVars, dispatchVars, classVars, chainVars, sigVars, registryVars, sceneVars, subscriberVars, idleVars, nameVars, serializationVars, filterVars, converterVars, commandVars, subclassVars, retargetVars, allocatorVars, pipeVars>>

\* The continuations a caller can hand to run_continuation: Ready(v), Soon(f)
\* and Later(poll_fn) where poll_fn answers Pending `pending` times.
Continuations ==
    [kind : {"Ready", "Soon"}, value : TalkValues, pending : {0}]
    \cup [kind : {"Later"}, value : TalkValues, pending : 0..MaxPending]

NoContinuation == [kind |-> "None", value |-> "v", pending |-> 0]

\* A poll in progress: between the upgrade of the Weak and the return.
InPoll(f) == pc[f] \in {"try_lock", "lock_poll", "register", "retry", "later"}

\* Live: created by run_continuation, neither completed nor dropped.
Live(f) == pc[f] = "idle" \/ InPoll(f)

\* Strong count of the Arc > 0: the runtime, the Arc a poll upgraded, the Arc
\* inside a pending OwnedMutexLockFuture, the Arc inside a guard.
upgrade ==
    \/ runtime_alive
    \/ \E f \in Futures : InPoll(f) \/ acquire_context[f] \/ guard[f]

\* futures::lock::Mutex::try_lock: succeeds iff IS_LOCKED was clear.
try_lock_always == TRUE
try_lock == ~locked

\* Waiter::wake on one slot of the slab (unlock and remove_waker(.., true) wake
\* the first slot the slab iterator yields; slab order is arbitrary here).
\* A Waiting slot becomes Woken and its task is notified, a Woken one is left.
WakeOne(ws, nt, ws2, nt2) ==
    IF \A g \in Futures : ws[g] = "none"
    THEN ws2 = ws /\ nt2 = nt
    ELSE \E g \in Futures :
            /\ ws[g] # "none"
            /\ ws2 = [ws EXCEPT ![g] = "woken"]
            /\ nt2 = IF ws[g] = "waiting" THEN [nt EXCEPT ![g] = TRUE] ELSE nt

\* The rest of the system does not move while the runtime does.
OutsideRuntime == UNCHANGED <<refVars, dispatchVars, classVars, chainVars, sigVars, registryVars, sceneVars, subscriberVars, idleVars, nameVars, serializationVars, filterVars, converterVars, commandVars, subclassVars, retargetVars, allocatorVars, pipeVars>>

RtInit ==
    /\ runtime_alive = TRUE
    /\ locked = FALSE
    /\ waiters = [f \in Futures |-> "none"]
    /\ pc = [f \in Futures |-> "none"]
    /\ continuation = [f \in Futures |-> NoContinuation]
    /\ acquire_context = [f \in Futures |-> FALSE]
    /\ guard = [f \in Futures |-> FALSE]
    /\ notified = [f \in Futures |-> FALSE]
    /\ result = [f \in Futures |-> NoResult]
    /\ calls = [f \in Futures |-> 0]

\* run_continuation(continuation): builds the future; nothing runs yet.
run_continuation(f, c) ==
    /\ runtime_alive
    /\ pc[f] = "none"
    /\ pc' = [pc EXCEPT ![f] = "idle"]
    /\ continuation' = [continuation EXCEPT ![f] = c]
    /\ notified' = [notified EXCEPT ![f] = TRUE]
    /\ UNCHANGED <<runtime_alive, locked, waiters, acquire_context, guard, result, calls>>
    /\ OutsideRuntime

\* drop(TalkRuntime): the runtime's strong reference goes away.
drop_runtime ==
    /\ runtime_alive
    /\ runtime_alive' = FALSE
    /\ UNCHANGED <<locked, waiters, pc, continuation, acquire_context, guard,
                   notified, result, calls>>
    /\ OutsideRuntime

\* Poll of a NowLater::Now future: completes with the value, no context needed.
poll_now(f) ==
    /\ pc[f] = "idle" /\ notified[f]
    /\ continuation[f].kind = "Ready"
    /\ pc' = [pc EXCEPT ![f] = "done"]
    /\ result' = [result EXCEPT ![f] = continuation[f].value]
    /\ notified' = [notified EXCEPT ![f] = FALSE]
    /\ UNCHANGED <<runtime_alive, locked, waiters, continuation, acquire_context, guard, calls>>
    /\ OutsideRuntime

\* Start of a poll of the poll_fn future: talk_context.upgrade().
poll_begin(f) ==
    /\ pc[f] = "idle" /\ notified[f]
    /\ continuation[f].kind \in {"Soon", "Later"}
    /\ notified' = [notified EXCEPT ![f] = FALSE]
    /\ IF upgrade
       THEN /\ pc' = [pc EXCEPT ![f] = IF acquire_context[f] THEN "lock_poll" ELSE "try_lock"]
            /\ UNCHANGED <<acquire_context, result>>
       ELSE /\ pc' = [pc EXCEPT ![f] = "done"]
            /\ acquire_context' = [acquire_context EXCEPT ![f] = FALSE]
            /\ result' = [result EXCEPT ![f] = RuntimeDropped]
    /\ UNCHANGED <<runtime_alive, locked, waiters, continuation, guard, calls>>
    /\ OutsideRuntime

\* The fast path: try_lock(), else start lock_owned().
poll_try_lock(f) ==
    /\ pc[f] = "try_lock"
    /\ IF try_lock
       THEN /\ locked' = TRUE
            /\ guard' = [guard EXCEPT ![f] = TRUE]
            /\ pc' = [pc EXCEPT ![f] = "later"]
            /\ UNCHANGED acquire_context
       ELSE /\ acquire_context' = [acquire_context EXCEPT ![f] = TRUE]
            /\ pc' = [pc EXCEPT ![f] = "lock_poll"]
            /\ UNCHANGED <<locked, guard>>
    /\ UNCHANGED <<runtime_alive, waiters, continuation, notified, result, calls>>
    /\ OutsideRuntime

\* The lock future resolved: its waiter slot is removed (without waking another),
\* acquire_context = None, the poll goes on to call `later` under the guard.
Acquired(f) ==
    /\ locked' = TRUE
    /\ guard' = [guard EXCEPT ![f] = TRUE]
    /\ waiters' = [waiters EXCEPT ![f] = "none"]
    /\ acquire_context' = [acquire_context EXCEPT ![f] = FALSE]
    /\ pc' = [pc EXCEPT ![f] = "later"]

\* acquire_context.poll_unpin: first try_lock of OwnedMutexLockFuture::poll.
poll_lock_future(f) ==
    /\ pc[f] = "lock_poll"
    /\ IF try_lock
       THEN Acquired(f)
       ELSE /\ pc' = [pc EXCEPT ![f] = "register"]
            /\ UNCHANGED <<locked, guard, waiters, acquire_context>>
    /\ UNCHANGED <<runtime_alive, continuation, notified, result, calls>>
    /\ OutsideRuntime

\* OwnedMutexLockFuture::poll registers the task's waker in the waiter slab.
poll_register(f) ==
    /\ pc[f] = "register"
    /\ waiters' = [waiters EXCEPT ![f] = "waiting"]
    /\ pc' = [pc EXCEPT ![f] = "retry"]
    /\ UNCHANGED <<runtime_alive, locked, continuation, acquire_context, guard,
                   notified, result, calls>>
    /\ OutsideRuntime

\* Second try_lock of OwnedMutexLockFuture::poll, else the poll returns Pending.
poll_retry(f) ==
    /\ pc[f] = "retry"
    /\ IF try_lock
       THEN Acquired(f)
       ELSE /\ pc' = [pc EXCEPT ![f] = "idle"]
            /\ UNCHANGED <<locked, guard, waiters, acquire_context>>
    /\ UNCHANGED <<runtime_alive, continuation, notified, result, calls>>
    /\ OutsideRuntime

\* The lock a poll leaves behind when `later` answered: the guard is a local of
\* the poll, so it is dropped whatever the answer.
GuardKeptWhilePending(f, pending) == pending
GuardAfterLater(f, pending) == FALSE

\* later(&mut *talk_context, future_context) under the guard, then the guard's
\* drop (unlock, wake one waiter).  A Soon body is the `later` that answers
\* Ready at once; a Later answers Pending `pending` times, then Ready.  A
\* Later that answered Pending is woken by whatever it waits for.
poll_later(f) ==
    LET c == continuation[f]
        pending == c.kind = "Later" /\ calls[f] < c.pending
        keep == GuardAfterLater(f, pending)
    IN  /\ pc[f] = "later"
        /\ calls' = [calls EXCEPT ![f] = @ + 1]
        /\ IF pending
           THEN /\ pc' = [pc EXCEPT ![f] = "idle"]
                /\ UNCHANGED result
           ELSE /\ pc' = [pc EXCEPT ![f] = "done"]
                /\ result' = [result EXCEPT ![f] = c.value]
        /\ IF keep
           THEN /\ UNCHANGED <<locked, guard, waiters>>
                /\ notified' = [notified EXCEPT ![f] = pending]
           ELSE /\ locked' = FALSE
                /\ guard' = [guard EXCEPT ![f] = FALSE]
                /\ WakeOne(waiters, [notified EXCEPT ![f] = pending], waiters', notified')
        /\ UNCHANGED <<runtime_alive, continuation, acquire_context>>
        /\ OutsideRuntime

\* What dropping the future does to its waiter slot: OwnedMutexLockFuture's drop
\* calls remove_waker(wait_key, true).
WaiterLeftBehind(f) == waiters[f]
WaiterAfterDrop(f) == "none"

\* The future is dropped between two polls.  Its closure owns acquire_context;
\* dropping a lock future that had been woken passes the wake-up on.
drop_future(f) ==
    /\ pc[f] = "idle"
    /\ pc' = [pc EXCEPT ![f] = "dropped"]
    /\ acquire_context' = [acquire_context EXCEPT ![f] = FALSE]
    /\ LET after == [waiters EXCEPT ![f] = WaiterAfterDrop(f)]
           nt == [notified EXCEPT ![f] = FALSE]
       IN  IF waiters[f] = "woken" /\ after[f] = "none"
           THEN \/ /\ \A g \in Futures : after[g] # "waiting"
                   /\ waiters' = after /\ notified' = nt
                \/ \E g \in Futures :
                       /\ after[g] = "waiting"
                       /\ waiters' = [after EXCEPT ![g] = "woken"]
                       /\ notified' = [nt EXCEPT ![g] = TRUE]
           ELSE waiters' = after /\ notified' = nt
    /\ UNCHANGED <<runtime_alive, locked, continuation, guard, result, calls>>
    /\ OutsideRuntime

(***************************************************************************)
(* Part 2: references, allocators and ownership inside one TalkContext.    *)
(*                                                                         *)
(* Three classes stand for the three allocators of the sources:            *)
(*   ClassClass  - TalkClassClassAllocator (class_class.rs): the handle is *)
(*                 a class id, nothing is counted, nothing is ever freed;  *)
(*   ScriptClass - SCRIPT_CLASS_CLASS with TalkStandardAllocator, whose    *)
(*                 data is a TalkScriptClass holding an optional reference *)
(*                 to its superclass;                                      *)
(*   CellBlock   - TalkCellBlockClass with TalkCellBlockAllocator, whose   *)
(*                 handle is a cell-block index of the context.            *)
(* The host program is whatever owns TalkValues outside the context: it    *)
(* creates objects, clones and releases values, wraps them in TalkOwned    *)
(* and reads data through retrieve.  All of it runs with the context       *)
(* borrowed, one operation at a time.                                      *)
(***************************************************************************)
MaxHandles == 2
MaxCellBlocks == 1
MaxHeld == 2
MaxArrayLen == 1

Handles == 1..MaxHandles
CellBlocks == 1..MaxCellBlocks
CountedClasses == {"ScriptClass", "CellBlock"}
Classes == {"ClassClass"} \cup CountedClasses
HandlesOf(class) ==
    IF class = "ScriptClass" THEN Handles
    ELSE IF class = "CellBlock" THEN CellBlocks
    ELSE {1}

\* TalkValue: Nil, Int, Reference(TalkReference(class, handle)), Array(values).
Nil == [tag |-> "Nil", class |-> "", handle |-> 0, array |-> <<>>]
Int42 == [tag |-> "Int", class |-> "", handle |-> 0, array |-> <<>>]
Reference(class, h) == [tag |-> "Reference", class |-> class, handle |-> h, array |-> <<>>]
Array(values) == [tag |-> "Array", class |-> "", handle |-> 0, array |-> values]

CountedReferences ==
    {Reference("ScriptClass", h) : h \in Handles} \cup {Reference("CellBlock", b) : b \in CellBlocks}
ClassObject == Reference("ClassClass", 1)

\* Slot states of an allocator: never used, holding data, released (free list).
NoSuperclass == 0
EmptySlot == [state |-> "empty", superclass_script_class |-> NoSuperclass]
ReleasedSlot == [state |-> "released", superclass_script_class |-> NoSuperclass]
TalkScriptClass(superclass) == [state |-> "live", superclass_script_class |-> superclass]

\* ------------------------------------------------ TalkStandardAllocator
\* add_reference: the count of the slot goes up.
Standard_add_reference(ctx, h) ==
    [ctx EXCEPT !.reference_counts[h] = @ + 1]

\* context.retain_cell_block / release_cell_block: the context's cell-block
\* table counts the block and frees it at zero.
retain_cell_block(ctx, b) ==
    [ctx EXCEPT !.cell_counts[b] = @ + 1]

release_cell_block(ctx, b) ==
    LET count == IF ctx.cell_counts[b] > 0 THEN ctx.cell_counts[b] - 1 ELSE 0
    IN  [ctx EXCEPT !.cell_counts[b] = count,
                    !.cell_blocks[b] = IF count = 0 /\ @ = "live" THEN "released" ELSE @]

\* ------------------------------------------------ TalkCellBlockAllocator
TalkCellBlockAllocator_add_reference(ctx, handle) == retain_cell_block(ctx, handle)

TalkCellBlockAllocator_remove_reference(ctx, handle) == release_cell_block(ctx, handle)

\* retrieve: the handle is copied into tmp_cell_block and that is returned.
TalkCellBlockAllocator_retrieve(ctx, handle) == "data"

\* ------------------------------------------------ TalkClassClassAllocator
TalkClassClassAllocator_add_reference(ctx, handle) == ctx
TalkClassClassAllocator_remove_reference(ctx, handle) == ctx
TalkClassClassAllocator_retrieve(ctx, handle) == "data"

\* retrieve of the standard allocator unwraps the slot's data.
Standard_retrieve(ctx, h) ==
    IF ctx.data[h].state = "live" THEN "data" ELSE "panic"

\* store of the standard allocator: a slot of the free list when there is one,
\* the next slot of the slab otherwise.
Lowest(S) == CHOOSE x \in S : \A y \in S : x <= y
FreeHandles(ctx) == {h \in Handles : ctx.data[h].state # "live"}
StoreHandle(ctx) ==
    LET free_list == {h \in Handles : ctx.data[h].state = "released"}
    IN  IF free_list # {} THEN Lowest(free_list) ELSE Lowest(FreeHandles(ctx))

\* context.allocate_cell_block: likewise for the context's cell blocks.
FreeCellBlocks(ctx) == {b \in CellBlocks : ctx.cell_blocks[b] # "live"}
StoreCellBlock(ctx) ==
    LET free_list == {b \in CellBlocks : ctx.cell_blocks[b] = "released"}
    IN  IF free_list # {} THEN Lowest(free_list) ELSE Lowest(FreeCellBlocks(ctx))

\* callbacks.add_reference(handle): the class's allocator, behind the callbacks.
add_reference(ctx, class, handle) ==
    IF class = "ScriptClass" THEN Standard_add_reference(ctx, handle)
    ELSE IF class = "CellBlock" THEN TalkCellBlockAllocator_add_reference(ctx, handle)
    ELSE TalkClassClassAllocator_add_reference(ctx, handle)

\* What TalkScriptClass::release_in_context releases: its superclass reference.
TalkScriptClass_release_in_context(script_class) ==
    IF script_class.superclass_script_class # NoSuperclass
    THEN {script_class.superclass_script_class}
    ELSE {}

\* remove_reference of the standard allocator: the count goes down; at zero the
\* slot joins the free list and its data is released in the context, which
\* releases the superclass reference the data holds.
RECURSIVE Standard_remove_reference(_, _)
Standard_remove_reference(ctx, h) ==
    LET count == IF ctx.reference_counts[h] > 0 THEN ctx.reference_counts[h] - 1 ELSE 0
        freed == count = 0 /\ ctx.data[h].state = "live"
        next == [ctx EXCEPT !.reference_counts[h] = count,
                            !.data[h] = IF freed THEN ReleasedSlot ELSE @]
        supers == IF freed THEN TalkScriptClass_release_in_context(ctx.data[h]) ELSE {}
    IN  IF supers = {}
        THEN next
        ELSE Standard_remove_reference(next, CHOOSE s \in supers : TRUE)

remove_reference(ctx, class, handle) ==
    IF class = "ScriptClass" THEN Standard_remove_reference(ctx, handle)
    ELSE IF class = "CellBlock" THEN TalkCellBlockAllocator_remove_reference(ctx, handle)
    ELSE TalkClassClassAllocator_remove_reference(ctx, handle)

retrieve(ctx, class, handle) ==
    IF class = "ScriptClass" THEN Standard_retrieve(ctx, handle)
    ELSE IF class = "CellBlock" THEN TalkCellBlockAllocator_retrieve(ctx, handle)
    ELSE TalkClassClassAllocator_retrieve(ctx, handle)

\* ------------------------------------------------ releasable.rs
\* TalkReference::clone_in_context: add_reference through the class callbacks
\* when the context has materialised them.
TalkReference_clone_in_context(ctx, reference) ==
    IF reference.class \in ctx.callbacks
    THEN add_reference(ctx, reference.class, reference.handle)
    ELSE ctx

\* TalkReference::remove_reference, used by release_in_context.
TalkReference_release_in_context(ctx, reference) ==
    IF reference.class \in ctx.callbacks
    THEN remove_reference(ctx, reference.class, reference.handle)
    ELSE ctx

\* The elements of an Array that clone_in_context clones.
ArrayNotCloned(value) == <<>>
ArrayCloned(value) == value.array

\* TalkValue::clone_in_context: the context after the clone was made (the
\* clone itself is structurally the value).
RECURSIVE TalkValue_clone_in_context(_, _)
RECURSIVE CloneEach(_, _)
TalkValue_clone_in_context(ctx, value) ==
    IF value.tag = "Reference" THEN TalkReference_clone_in_context(ctx, value)
    ELSE IF value.tag = "Array" THEN CloneEach(ctx, ArrayCloned(value))
    ELSE ctx

CloneEach(ctx, values) ==
    IF values = <<>> THEN ctx
    ELSE CloneEach(TalkValue_clone_in_context(ctx, Head(values)), Tail(values))

\* TalkValue::release_in_context (remove_reference) and the release of any
\* iterable of releasable items, item by item.
RECURSIVE TalkValue_release_in_context(_, _)
RECURSIVE IntoIter_release_in_context(_, _)
TalkValue_release_in_context(ctx, value) ==
    IF value.tag = "Reference" THEN TalkReference_release_in_context(ctx, value)
    ELSE IF value.tag = "Array" THEN IntoIter_release_in_context(ctx, value.array)
    ELSE ctx

IntoIter_release_in_context(ctx, values) ==
    IF values = <<>> THEN ctx
    ELSE IntoIter_release_in_context(TalkValue_release_in_context(ctx, Head(values)), Tail(values))

\* ------------------------------------------------ the host's values
\* Occurrences of a reference in a value.
RECURSIVE Occurrences(_, _)
RECURSIVE OccurrencesIn(_, _)
Occurrences(value, reference) ==
    IF value.tag = "Reference" THEN (IF value = reference THEN 1 ELSE 0)
    ELSE IF value.tag = "Array" THEN OccurrencesIn(value.array, reference)
    ELSE 0

OccurrencesIn(values, reference) ==
    IF values = <<>> THEN 0
    ELSE Occurrences(Head(values), reference) + OccurrencesIn(Tail(values), reference)

SeqsUpTo(S, n) == UNION {[1..k -> S] : k \in 0..n}

\* The values built from a set of references: atoms, arrays of references,
\* and arrays nesting such an array.
ValuesOver(refs) ==
    LET atoms == {Nil, Int42, ClassObject} \cup refs
        flat == {Array(s) : s \in SeqsUpTo(refs, MaxArrayLen) \ {<<>>}}
        nested == {Array(<<a>>) : a \in flat} \cup
                  {Array(<<r, Array(<<q>>)>>) : r \in refs, q \in refs}
    IN  atoms \cup flat \cup nested \cup {Array(<<>>), Array(<<Nil, ClassObject>>)}

\* The host owns every reference of the value, once per occurrence.
Owns(value) == \A r \in CountedReferences : Occurrences(value, r) <= held[r]

\* The values the host can build from the references it owns.
OwnedValues ==
    {v \in ValuesOver({r \in CountedReferences : held[r] > 0}) : Owns(v)}

RECURSIVE SumOver(_, _)
SumOver(count, refs) ==
    IF refs = {} THEN 0
    ELSE LET r == CHOOSE x \in refs : TRUE IN count[r] + SumOver(count, refs \ {r})
TotalHeld == SumOver(held, CountedReferences)
Size(value) == SumOver([r \in CountedReferences |-> Occurrences(value, r)], CountedReferences)

Gain(value) == [r \in CountedReferences |-> held[r] + Occurrences(value, r)]
Lose(value) == [r \in CountedReferences |-> held[r] - Occurrences(value, r)]

NoRetrieve == [class |-> "", handle |-> 0, released |-> FALSE, outcome |-> "none"]

EmptyContext ==
    [callbacks |-> {},
     reference_counts |-> [h \in Handles |-> 0],
     data |-> [h \in Handles |-> EmptySlot],
     cell_counts |-> [b \in CellBlocks |-> 0],
     cell_blocks |-> [b \in CellBlocks |-> "empty"]]

RefInit ==
    /\ talk_context = EmptyContext
    /\ held = [r \in CountedReferences |-> 0]
    /\ phase = "idle"
    /\ cloned = Nil
    /\ before = EmptyContext
    /\ owned = Nil
    /\ owned_state = "none"
    /\ retrieved = NoRetrieve

\* The runtime does not move while the host works on the context.
OutsideReferences == UNCHANGED <<rtVars, dispatchVars, classVars, chainVars, sigVars, registryVars, sceneVars, subscriberVars, idleVars, nameVars, serializationVars, filterVars, converterVars, commandVars, subclassVars, retargetVars, allocatorVars, pipeVars>>

\* No clone awaits its fate, no TalkOwned is in scope, no value was lost with
\* the runtime and the context's thread is not inside `new` or the body of a
\* continuation.
NoValueInFlight ==
    /\ phase \notin {"cloned", "new", "soon"}
    /\ owned_state \notin {"owned", "leaked", "resent", "lost"}

\* The host is between operations: it holds no value in flight and has put
\* away the record of the clone it released last.
Between == NoValueInFlight /\ phase # "released"

\* A new host operation forgets the records kept of the previous one.
Forget ==
    /\ phase' = "idle" /\ cloned' = Nil /\ before' = EmptyContext
    /\ owned' = Nil /\ owned_state' = "none"
    /\ retrieved' = NoRetrieve

\* context.get_callbacks_mut(class): materialises the class in the context.
get_callbacks_mut(class) ==
    /\ Between
    /\ class \notin talk_context.callbacks
    /\ talk_context' = [talk_context EXCEPT !.callbacks = @ \cup {class}]
    /\ Forget
    /\ UNCHANGED held
    /\ OutsideReferences

\* ------------------------------------------------ TalkClass::create
\* The registry of classes (class.rs): NEXT_CLASS_ID, CLASS_DEFINITIONS and
\* CLASS_CALLBACKS, each behind its own mutex.  create is not one step: it
\* takes its id in TalkClass::new, then waits for the guard of
\* CLASS_DEFINITIONS, stores the definition, waits for the guard of
\* CLASS_CALLBACKS, stores the callbacks and drops both guards as it returns.
\* A step of the model is one critical section or one store to a vector.
\* No thread holds a guard.
NoThread == 0
MaxClasses == 2
NumThreads == 2

Threads == 1..NumThreads

\* The thread that runs the context: `new` of the script class class calls
\* create on it, as any other thread may at the same time.
ContextThread == NumThreads + 1
Creators == Threads \cup {ContextThread}

\* the counter that hands every caller the same id
same_class_id(next_class_id) == next_class_id

\* *next_class_id += 1
increment_class_id(next_class_id) == next_class_id + 1

\* while vector.len() <= idx { vector.push(None); }  vector[idx] = Some(value);
store_at(vector, idx, value) ==
    LET len == IF Len(vector) <= idx THEN idx + 1 ELSE Len(vector)
    IN  [i \in 1..len |-> IF i = idx + 1 THEN value
                          ELSE IF i <= Len(vector) THEN vector[i]
                          ELSE "None"]

\* TalkClassCallbacks { create_in_context: callback_create_in_context(class, definition) }
TalkClassCallbacks(idx, definition) == [class_id |-> idx, definition |-> definition]

OutsideRegistry == UNCHANGED <<rtVars, refVars, dispatchVars, classVars, chainVars, sigVars, sceneVars, subscriberVars, idleVars, nameVars, serializationVars, filterVars, converterVars, commandVars, subclassVars, retargetVars, allocatorVars, pipeVars>>

ClassDefinitions == {"d1", "d2"}

NoClassId == -1

RegistryInit ==
    /\ NEXT_CLASS_ID = 0
    /\ CLASS_DEFINITIONS = <<>>
    /\ CLASS_CALLBACKS = <<>>
    /\ definitions_lock = NoThread
    /\ callbacks_lock = NoThread
    /\ create_pc = [t \in Creators |-> "idle"]
    /\ create_idx = [t \in Creators |-> NoClassId]
    /\ create_definition = [t \in Creators |-> "None"]
    /\ create_log = <<>>

\* let class = TalkClass::new(), the first thing create(definition) does: the
\* id is read and incremented under the NEXT_CLASS_ID guard, which is dropped
\* before create goes on to the two vectors
TalkClass_new(t, definition) ==
    /\ create_pc[t] = "idle"
    /\ NEXT_CLASS_ID < MaxClasses
    /\ create_idx' = [create_idx EXCEPT ![t] = NEXT_CLASS_ID]
    /\ NEXT_CLASS_ID' = increment_class_id(NEXT_CLASS_ID)
    /\ create_definition' = [create_definition EXCEPT ![t] = definition]
    /\ create_pc' = [create_pc EXCEPT ![t] = "lock_definitions"]
    /\ UNCHANGED <<CLASS_DEFINITIONS, CLASS_CALLBACKS, definitions_lock, callbacks_lock,
                   create_log>>

\* TalkClass::create(definition) called by a thread of its own
create_new(t, definition) ==
    /\ TalkClass_new(t, definition)
    /\ OutsideRegistry

\* let mut class_definitions = CLASS_DEFINITIONS.lock().unwrap();
create_lock_definitions(t) ==
    /\ create_pc[t] = "lock_definitions"
    /\ definitions_lock = NoThread
    /\ definitions_lock' = t
    /\ create_pc' = [create_pc EXCEPT ![t] = "store_definition"]
    /\ UNCHANGED <<NEXT_CLASS_ID, CLASS_DEFINITIONS, CLASS_CALLBACKS, callbacks_lock,
                   create_idx, create_definition, create_log>>
    /\ OutsideRegistry

\* class_definitions[idx] = Some(Box::new(Arc::clone(&definition)));
create_store_definition(t) ==
    /\ create_pc[t] = "store_definition"
    /\ CLASS_DEFINITIONS' = store_at(CLASS_DEFINITIONS, create_idx[t], create_definition[t])
    /\ create_pc' = [create_pc EXCEPT ![t] = "lock_callbacks"]
    /\ UNCHANGED <<NEXT_CLASS_ID, CLASS_CALLBACKS, definitions_lock, callbacks_lock,
                   create_idx, create_definition, create_log>>
    /\ OutsideRegistry

\* let mut all_callbacks = CLASS_CALLBACKS.lock().unwrap();
create_lock_callbacks(t) ==
    /\ create_pc[t] = "lock_callbacks"
    /\ callbacks_lock = NoThread
    /\ callbacks_lock' = t
    /\ create_pc' = [create_pc EXCEPT ![t] = "store_callbacks"]
    /\ UNCHANGED <<NEXT_CLASS_ID, CLASS_DEFINITIONS, CLASS_CALLBACKS, definitions_lock,
                   create_idx, create_definition, create_log>>
    /\ OutsideRegistry

\* all_callbacks[idx] = Some(class_callbacks); class: both guards are dropped
\* as create returns
create_store_callbacks(t) ==
    /\ create_pc[t] = "store_callbacks"
    /\ CLASS_CALLBACKS' = store_at(CLASS_CALLBACKS, create_idx[t],
                                   TalkClassCallbacks(create_idx[t], create_definition[t]))
    /\ create_log' = Append(create_log,
                            [class |-> create_idx[t], definition |-> create_definition[t]])
    /\ definitions_lock' = NoThread
    /\ callbacks_lock' = NoThread
    /\ create_pc' = [create_pc EXCEPT ![t] = "idle"]
    /\ create_idx' = [create_idx EXCEPT ![t] = NoClassId]
    /\ create_definition' = [create_definition EXCEPT ![t] = "None"]
    /\ UNCHANGED <<NEXT_CLASS_ID, CLASS_DEFINITIONS>>
    /\ OutsideRegistry

\* What a context operation that creates a class leaves alone.
OutsideContextAndRegistry == UNCHANGED <<rtVars, dispatchVars, classVars, chainVars, sigVars, sceneVars, subscriberVars, idleVars, nameVars, serializationVars, filterVars, converterVars, commandVars, retargetVars, allocatorVars, pipeVars>>

\* SCRIPT_CLASS_CLASS new, up to the call of TalkClass::create: the message
\* reaches send_class_message of the script class class, which asks for a
\* cell block class for the new script class; create takes its id and goes
\* on in the steps of the registry (create_lock_definitions ...), waiting for
\* the guards that other threads may hold.
script_class_new ==
    /\ Between
    /\ TotalHeld < MaxHeld
    /\ FreeHandles(talk_context) # {}
    /\ TalkClass_new(ContextThread, "TalkCellBlockClass")
    /\ talk_context' = [talk_context EXCEPT !.callbacks = @ \cup {"ScriptClass"}]
    /\ phase' = "new" /\ cloned' = Nil /\ before' = EmptyContext
    /\ owned' = Nil /\ owned_state' = "none"
    /\ retrieved' = NoRetrieve
    /\ UNCHANGED <<held, soon_parent>>
    /\ OutsideContextAndRegistry

\* SCRIPT_CLASS_CLASS new, once create has returned the cell block class: an
\* empty TalkScriptClass is stored in the allocator and the reference is
\* answered, which the host now owns.
script_class_new_store(h) ==
    /\ phase = "new"
    /\ create_pc[ContextThread] = "idle"
    /\ h \in FreeHandles(talk_context) /\ h = StoreHandle(talk_context)
    /\ talk_context' = [talk_context EXCEPT
            !.data[h] = TalkScriptClass(NoSuperclass),
            !.reference_counts[h] = 1]
    /\ held' = [held EXCEPT ![Reference("ScriptClass", h)] = @ + 1]
    /\ Forget
    /\ UNCHANGED soon_parent
    /\ UNCHANGED registryVars
    /\ OutsideContextAndRegistry

\* the runtime runs the Soon continuation that `subclass` answered, up to the
\* call of TalkClass::create: the parent is retained
\* (parent_class_1.add_reference) and `new` is sent to the script class
\* class, which asks for a cell block class; create takes its id and goes on
\* in the steps of the registry
subclass_soon ==
    /\ NoValueInFlight
    /\ soon_parent # NoSuperclass
    /\ TotalHeld < MaxHeld
    /\ FreeHandles(talk_context) # {}
    /\ TalkClass_new(ContextThread, "TalkCellBlockClass")
    /\ talk_context' = add_reference(talk_context, "ScriptClass", soon_parent)
    /\ phase' = "soon"
    /\ UNCHANGED <<held, soon_parent, cloned, before, owned, owned_state, retrieved>>
    /\ OutsideContextAndRegistry

\* the rest of the continuation, once create has returned the cell block
\* class: `new` stores the new script class and answers its reference, and
\* the new class records the parent as its superclass
subclass_soon_store(h) ==
    /\ phase = "soon"
    /\ create_pc[ContextThread] = "idle"
    /\ h \in FreeHandles(talk_context) /\ h = StoreHandle(talk_context)
    /\ talk_context' = [talk_context EXCEPT
            !.data[h] = TalkScriptClass(soon_parent),
            !.reference_counts[h] = 1]
    /\ held' = [held EXCEPT ![Reference("ScriptClass", h)] = @ + 1]
    /\ soon_parent' = NoSuperclass
    /\ Forget
    /\ UNCHANGED registryVars
    /\ OutsideContextAndRegistry

\* context.allocate_cell_block: an instance whose data is a cell block.
allocate_cell_block(b) ==
    /\ Between
    /\ TotalHeld < MaxHeld
    /\ b \in FreeCellBlocks(talk_context) /\ b = StoreCellBlock(talk_context)
    /\ talk_context' = [talk_context EXCEPT
            !.callbacks = @ \cup {"CellBlock"},
            !.cell_blocks[b] = "live",
            !.cell_counts[b] = 1]
    /\ held' = [held EXCEPT ![Reference("CellBlock", b)] = @ + 1]
    /\ Forget
    /\ OutsideReferences

\* value.clone_in_context(context) of a value the host owns: the clone exists,
\* the host has not yet decided what to do with it.
clone_in_context(value) ==
    /\ Between
    /\ Owns(value)
    /\ talk_context' = TalkValue_clone_in_context(talk_context, value)
    /\ phase' = "cloned" /\ cloned' = value /\ before' = talk_context
    /\ owned' = Nil /\ owned_state' = "none"
    /\ retrieved' = NoRetrieve
    /\ UNCHANGED held
    /\ OutsideReferences

\* reference.clone_in_context(context) of a reference the host owns, the clone
\* kept as one more reference of the host.
clone_reference(r) ==
    /\ Between
    /\ TotalHeld < MaxHeld
    /\ held[r] > 0
    /\ talk_context' = TalkReference_clone_in_context(talk_context, r)
    /\ held' = [held EXCEPT ![r] = @ + 1]
    /\ Forget
    /\ OutsideReferences

\* drop(clone): the clone is released in the context.
release_clone ==
    /\ phase = "cloned"
    /\ talk_context' = TalkValue_release_in_context(talk_context, cloned)
    /\ phase' = "released"
    /\ UNCHANGED <<held, cloned, before, owned, owned_state, retrieved>>
    /\ OutsideReferences

\* The host goes on after the release of a clone: the record of the clone and
\* of the context before it is put away; the context and the references of
\* the host are what they are.
host_goes_on ==
    /\ phase = "released"
    /\ Forget
    /\ UNCHANGED <<talk_context, held>>
    /\ OutsideReferences

\* The host keeps the clone as one more value it owns.
keep_clone ==
    /\ phase = "cloned"
    /\ TotalHeld + Size(cloned) <= MaxHeld
    /\ held' = Gain(cloned)
    /\ Forget
    /\ UNCHANGED talk_context
    /\ OutsideReferences

\* value.release_in_context(context) of a value the host owns.
release_in_context(value) ==
    /\ Between
    /\ Owns(value)
    /\ Size(value) > 0
    /\ talk_context' = TalkValue_release_in_context(talk_context, value)
    /\ held' = Lose(value)
    /\ Forget
    /\ OutsideReferences

\* What the wrapper's drop does with the value it holds: it releases it.
TalkOwned_drop_value(ctx, value) == TalkValue_release_in_context(ctx, value)

\* TalkOwned::new(value, context): a value of the host moves into the wrapper
\* (the arguments of a message, wrapped for a dispatch call).
TalkOwned_new(value) ==
    /\ Between
    /\ Owns(value)
    /\ Size(value) > 0
    /\ held' = Lose(value)
    /\ owned' = value /\ owned_state' = "owned" /\ before' = talk_context
    /\ phase' = "idle" /\ cloned' = Nil /\ retrieved' = NoRetrieve
    /\ UNCHANGED talk_context
    /\ OutsideReferences

\* Drop for TalkOwned: scope exit of the wrapper, or of the wrapper the
\* dispatch built around re-sent arguments.
TalkOwned_drop ==
    /\ owned_state \in {"owned", "resent"}
    /\ talk_context' = TalkOwned_drop_value(talk_context, owned)
    /\ owned_state' = IF owned_state = "resent" THEN "dropped_by_receiver" ELSE "dropped"
    /\ UNCHANGED <<held, phase, cloned, before, owned, retrieved>>
    /\ OutsideReferences

\* args.leak() in TalkClassClass::send_instance_message: the arguments leave
\* the wrapper unreleased and move into the Soon continuation.
TalkOwned_leak ==
    /\ owned_state = "owned"
    /\ owned_state' = "leaked"
    /\ UNCHANGED <<talk_context, held, phase, cloned, before, owned, retrieved>>
    /\ OutsideReferences

\* The runtime runs the Soon continuation, which re-sends the message:
\* send_message_in_context ends in send_message, which wraps the arguments in
\* a new TalkOwned for the action.
resend_message ==
    /\ owned_state = "leaked"
    /\ owned_state' = "resent"
    /\ UNCHANGED <<talk_context, held, phase, cloned, before, owned, retrieved>>
    /\ OutsideReferences

\* The Soon continuation is dropped before the runtime has run it (the
\* runtime is dropped with its continuations): the closure goes, and the
\* arguments it had captured with it.  They are plain TalkValues outside any
\* TalkOwned, so nothing releases them.  The host does no more with a context
\* whose runtime is gone.
drop_continuation ==
    /\ owned_state = "leaked"
    /\ owned_state' = "lost"
    /\ UNCHANGED <<talk_context, held, phase, cloned, before, owned, retrieved>>
    /\ OutsideReferences

OutsideSubclass == UNCHANGED <<rtVars, dispatchVars, classVars, chainVars, sigVars, registryVars, sceneVars, subscriberVars, idleVars, nameVars, serializationVars, filterVars, converterVars, commandVars, retargetVars, allocatorVars, pipeVars>>

\* `parent subclass` sent to a reference the host owns.  The reference goes
\* into the dispatch, which wraps it in a TalkOwned (send_message_and_release,
\* and the not-supported closure of callback_dispatch_table, which takes the
\* target as a TalkOwned): `subclass` answers a Soon continuation that holds
\* the parent reference without a count of its own, and when the dispatch
\* returns that continuation the wrapper is dropped, which releases the
\* reference that was sent.  Nothing is retained or stored until the runtime
\* runs the continuation.
send_message_and_release(parent) ==
    /\ Between
    /\ soon_parent = NoSuperclass
    /\ held[Reference("ScriptClass", parent)] > 0
    /\ soon_parent' = parent
    /\ talk_context' = TalkOwned_drop_value(talk_context, Reference("ScriptClass", parent))
    /\ held' = [held EXCEPT ![Reference("ScriptClass", parent)] = @ - 1]
    /\ Forget
    /\ OutsideSubclass

\* Whether a handle has been released: its count reached zero.
Released(ctx, class, handle) ==
    IF class = "ScriptClass" THEN ctx.data[handle].state = "released"
    ELSE IF class = "CellBlock" THEN ctx.cell_blocks[handle] = "released"
    ELSE FALSE

\* allocator.retrieve(handle), on any handle the host still remembers.
host_retrieve(class, handle) ==
    /\ Between
    /\ class \in talk_context.callbacks
    /\ retrieved' = [class |-> class, handle |-> handle,
                     released |-> Released(talk_context, class, handle),
                     outcome |-> retrieve(talk_context, class, handle)]
    /\ phase' = "idle" /\ cloned' = Nil /\ before' = EmptyContext
    /\ owned' = Nil /\ owned_state' = "none"
    /\ UNCHANGED <<talk_context, held>>
    /\ OutsideReferences

NextRefs ==
    \/ \E class \in Classes \ CountedClasses : get_callbacks_mut(class)
    \/ script_class_new
    \/ create_lock_definitions(ContextThread)
    \/ create_store_definition(ContextThread)
    \/ create_lock_callbacks(ContextThread)
    \/ create_store_callbacks(ContextThread)
    \/ \E h \in Handles : script_class_new_store(h)
    \/ \E parent \in Handles : send_message_and_release(parent)
    \/ subclass_soon
    \/ \E h \in Handles : subclass_soon_store(h)
    \/ \E b \in CellBlocks : allocate_cell_block(b)
    \/ Between /\ \E value \in OwnedValues : clone_in_context(value)
    \/ release_clone
    \/ host_goes_on
    \/ keep_clone
    \/ Between /\ \E value \in OwnedValues : release_in_context(value)
    \/ \E class \in Classes : \E handle \in HandlesOf(class) : host_retrieve(class, handle)

\* The host wrapping the values it owns in TalkOwned.
NextOwned ==
    \/ \E class \in Classes \ CountedClasses : get_callbacks_mut(class)
    \/ script_class_new
    \/ create_lock_definitions(ContextThread)
    \/ create_store_definition(ContextThread)
    \/ create_lock_callbacks(ContextThread)
    \/ create_store_callbacks(ContextThread)
    \/ \E h \in Handles : script_class_new_store(h)
    \/ \E parent \in Handles : send_message_and_release(parent)
    \/ subclass_soon
    \/ \E h \in Handles : subclass_soon_store(h)
    \/ \E b \in CellBlocks : allocate_cell_block(b)
    \/ \E r \in CountedReferences : clone_reference(r)
    \/ Between /\ \E value \in OwnedValues : release_in_context(value)
    \/ Between /\ \E value \in OwnedValues : TalkOwned_new(value)
    \/ TalkOwned_drop
    \/ TalkOwned_leak
    \/ resend_message
    \/ drop_continuation

(***************************************************************************)
(* Part 3: TalkMessageDispatchTable (src/src/flotalk/dispatch_table.rs).   *)
(* One table; actions are opaque functions told apart by a number, a       *)
(* message is its signature id and its argument list.  What an action      *)
(* answers is a continuation naming the action and what it was called      *)
(* with.                                                                   *)
(***************************************************************************)
NumSignatures == 2
NumActions == 2

SignatureIds == 1..NumSignatures
Actions == 1..NumActions
NoAction == 0
Targets == {"t1", "t2"}
Arguments == {<<>>, <<"arg">>}
NotSupportedActions == {"default", "custom"}

\* TalkError::MessageNotSupported(id).into(): a continuation that is Ready
\* with the error value.
MessageNotSupported(id) ==
    [kind |-> "Ready", value |-> "Error(MessageNotSupported)", id |-> id,
     action |-> NoAction, target |-> "", args |-> <<>>]

\* The continuation a bound action answers.
ActionContinuation(action, target, args) ==
    [kind |-> "Action", value |-> "", id |-> 0,
     action |-> action, target |-> target, args |-> args]

\* The continuation a replaced not-supported action answers.
CustomContinuation(target, id, args) ==
    [kind |-> "Custom", value |-> "", id |-> id,
     action |-> NoAction, target |-> target, args |-> args]

None == [kind |-> "None", value |-> "", id |-> 0,
         action |-> NoAction, target |-> "", args |-> <<>>]

\* definition.send_instance_message(message_id, args, reference, data) and
\* definition.send_class_message(message_id, args, class_id, allocator): what
\* the definition was called with.
send_instance_message(id, args, reference, data) ==
    [kind |-> "send_instance_message", value |-> data, id |-> id,
     action |-> NoAction, target |-> reference, args |-> args]

send_class_message(id, args, class_id) ==
    [kind |-> "send_class_message", value |-> "", id |-> id,
     action |-> NoAction, target |-> class_id, args |-> args]

Panic == [kind |-> "panic", value |-> "", id |-> 0,
          action |-> NoAction, target |-> "", args |-> <<>>]

\* The reference the not-supported closure of callback_dispatch_table builds.
TalkReference(class_id, data_handle) == [class |-> class_id, handle |-> data_handle]

\* allocator.retrieve(data_handle) of the closure panics: the closure has the
\* guard of the allocator's mutex at that point, and the unwinding poisons it.
panics_in_retrieve(data_handle) ==
    ~allocator_poisoned /\ allocator[data_handle] = "released"

\* The closure callback_dispatch_table installs: lock the allocator
\* (allocator.lock().unwrap() panics on a poisoned mutex), retrieve the data
\* of the handle (which panics for a released handle), call
\* send_instance_message.
instance_not_supported(target, id, args) ==
    LET data_handle == target.handle
        data == allocator[data_handle]
    IN  IF allocator_poisoned THEN Panic
        ELSE IF data = "released" THEN Panic
        ELSE send_instance_message(id, args, TalkReference(class_callbacks.class_id, data_handle), data)

\* The closure callback_class_dispatch_table installs.
class_not_supported(target, id, args) ==
    send_class_message(id, args, class_callbacks.class_id)

\* (self.not_supported)(target, id, args, talk_context)
call_not_supported(handler, target, id, args) ==
    IF handler = "default" THEN MessageNotSupported(id)
    ELSE IF handler = "callback_dispatch_table" THEN instance_not_supported(target, id, args)
    ELSE IF handler = "callback_class_dispatch_table" THEN class_not_supported(target, id, args)
    ELSE CustomContinuation(target, id, args)

NothingSent ==
    [op |-> "none", target |-> "", id |-> 0, args |-> <<>>,
     bound |-> NoAction, fallback |-> "", action_calls |-> 0,
     not_supported_calls |-> 0, not_supported_id |-> 0, args_owned |-> FALSE,
     answer |-> None]

\* TalkMessageDispatchTable::empty()
DispatchInit ==
    /\ message_action = [id \in SignatureIds |-> NoAction]
    /\ not_supported = "default"
    /\ defined = [id \in SignatureIds |-> NoAction]
    /\ sent = NothingSent

OutsideDispatch == UNCHANGED <<rtVars, refVars, classVars, chainVars, sigVars, registryVars, sceneVars, subscriberVars, idleVars, nameVars, serializationVars, filterVars, converterVars, commandVars, subclassVars, retargetVars, allocatorVars, pipeVars>>

\* message_action.insert(id, action): the entry of the sparse array is replaced.
insert(table, id, action) == [table EXCEPT ![id] = action]

\* define_message(message, action), also reached through with_message.
define_message(id, action) ==
    /\ message_action' = insert(message_action, id, action)
    /\ defined' = [defined EXCEPT ![id] = action]
    /\ sent' = NothingSent
    /\ UNCHANGED not_supported
    /\ OutsideDispatch

\* with_not_supported(not_supported)
with_not_supported(handler) ==
    /\ not_supported' = handler
    /\ sent' = NothingSent
    /\ UNCHANGED <<message_action, defined>>
    /\ OutsideDispatch

\* The tables with_messages_from copies from: some signatures bound to one action.
SourceTables ==
    {[id \in SignatureIds |-> IF id \in ids THEN action ELSE NoAction] :
        ids \in SUBSET SignatureIds \ {{}}, action \in Actions}

RECURSIVE insert_all(_, _, _)
insert_all(table, source, ids) ==
    IF ids = {} THEN table
    ELSE LET id == CHOOSE x \in ids : TRUE
         IN  insert_all(insert(table, id, source[id]), source, ids \ {id})

\* with_messages_from(table): every message of the other table is inserted.
with_messages_from(table) ==
    LET ids == {id \in SignatureIds : table[id] # NoAction}
    IN  /\ message_action' = insert_all(message_action, table, ids)
        /\ defined' = [id \in SignatureIds |-> IF id \in ids THEN table[id] ELSE defined[id]]
        /\ sent' = NothingSent
        /\ UNCHANGED not_supported
        /\ OutsideDispatch

\* map_fn of with_mapped_messages_from: the target of this table converted to
\* the target type of the source table (|v| TalkValue::Reference(v) where the
\* default instance tables are built).
map_fn(target) == IF target = "t1" THEN "Reference(t1)" ELSE "Reference(t2)"

\* The wrapper with_mapped_messages_from binds for an action of the source
\* table: move |data, args, context| (message)((map_fn)(data), args, context).
Mapped(action) == NumActions + action

\* (action)(target, args, talk_context): a wrapper calls the action it wraps
\* with the mapped target.
call_action(action, target, args) ==
    IF action > NumActions
    THEN ActionContinuation(action - NumActions, map_fn(target), args)
    ELSE ActionContinuation(action, target, args)

\* with_mapped_messages_from(table, map_fn): a wrapper is inserted for every
\* message of the other table.
with_mapped_messages_from(table) ==
    LET ids == {id \in SignatureIds : table[id] # NoAction}
        wrappers == [id \in SignatureIds |-> IF id \in ids THEN Mapped(table[id]) ELSE NoAction]
    IN  /\ message_action' = insert_all(message_action, wrappers, ids)
        /\ defined' = [id \in SignatureIds |-> IF id \in ids THEN wrappers[id] ELSE defined[id]]
        /\ sent' = NothingSent
        /\ UNCHANGED not_supported
        /\ OutsideDispatch

\* The signature id send_message hands to the not-supported action.
id_of_first_message(id) == 1
id_of_message(id) == id

\* send_message(target, message, talk_context) of a table with the given
\* message_action and not_supported.
send_message_to(table, handler, target, id, args) ==
    LET action == table[id]
    IN  [op |-> "send_message", target |-> target, id |-> id, args |-> args,
         bound |-> action,
         fallback |-> IF action = NoAction THEN handler ELSE "",
         action_calls |-> IF action # NoAction THEN 1 ELSE 0,
         not_supported_calls |-> IF action # NoAction THEN 0 ELSE 1,
         not_supported_id |-> IF action # NoAction THEN 0 ELSE id_of_message(id),
         args_owned |-> TRUE,
         answer |-> IF action # NoAction
                    THEN call_action(action, target, args)
                    ELSE call_not_supported(handler, target, id_of_message(id), args)]

send_message(target, id, args) ==
    /\ sent' = send_message_to(message_action, not_supported, target, id, args)
    /\ UNCHANGED <<message_action, not_supported, defined>>
    /\ OutsideDispatch

\* What try_send_message does when the signature has no binding.
try_send_falls_back(handler, target, id, args) ==
    [calls |-> 1, answer |-> call_not_supported(handler, target, id, args)]
try_send_unbound(handler, target, id, args) ==
    [calls |-> 0, answer |-> None]

\* try_send_message(target, message, talk_context)
try_send_message(target, id, args) ==
    LET action == message_action[id]
        unbound == try_send_unbound(not_supported, target, id, args)
    IN  /\ sent' = [op |-> "try_send_message", target |-> target, id |-> id, args |-> args,
                    bound |-> action,
                    fallback |-> "",
                    action_calls |-> IF action # NoAction THEN 1 ELSE 0,
                    not_supported_calls |-> IF action # NoAction THEN 0 ELSE unbound.calls,
                    not_supported_id |-> IF action # NoAction \/ unbound.calls = 0 THEN 0 ELSE id,
                    args_owned |-> action # NoAction,
                    answer |-> IF action # NoAction
                               THEN call_action(action, target, args)
                               ELSE unbound.answer]
        /\ UNCHANGED <<message_action, not_supported, defined>>
        /\ OutsideDispatch

NextDispatch ==
    \/ \E id \in SignatureIds, action \in Actions : define_message(id, action)
    \/ \E handler \in NotSupportedActions : with_not_supported(handler)
    \/ \E table \in SourceTables : with_messages_from(table)
    \/ \E table \in SourceTables : with_mapped_messages_from(table)
    \/ \E target \in Targets, id \in SignatureIds, args \in Arguments : send_message(target, id, args)
    \/ \E target \in Targets, id \in SignatureIds, args \in Arguments : try_send_message(target, id, args)

(***************************************************************************)
(* Part 4: the callbacks of a class in a context (src/flotalk/src/class.rs *)
(* callback_create_in_context, callback_dispatch_table and                 *)
(* callback_class_dispatch_table).  The definition supplies its default    *)
(* instance and class dispatch tables; the callbacks add the not-supported *)
(* closures that hand every other message to the definition.               *)
(* The instance closure holds the guard of the allocator's std Mutex while  *)
(* it retrieves the data; a panic of retrieve poisons that mutex.           *)
(***************************************************************************)
ClassIds == {3, 7}
Unit == [class |-> 0, handle |-> 0]
EmptyTable == [id \in SignatureIds |-> NoAction]
DefaultTables == SourceTables \cup {EmptyTable}

NoCallbacks ==
    [created |-> FALSE, class_id |-> 0,
     definition |-> [instance |-> EmptyTable, class |-> EmptyTable],
     dispatch_table |-> [message_action |-> EmptyTable, not_supported |-> "default"],
     class_dispatch_table |-> [message_action |-> EmptyTable, not_supported |-> "default"]]

NothingDelivered == [table |-> "none", message |-> NothingSent]

ClassInit ==
    /\ class_callbacks = NoCallbacks
    /\ allocator = [h \in Handles |-> "released"]
    /\ allocator_poisoned = FALSE
    /\ delivered = NothingDelivered

OutsideClass == UNCHANGED <<rtVars, refVars, dispatchVars, chainVars, sigVars, registryVars, sceneVars, subscriberVars, idleVars, nameVars, serializationVars, filterVars, converterVars, commandVars, subclassVars, retargetVars, allocatorVars, pipeVars>>

\* table.with_not_supported(closure), as a value.
table_with_not_supported(table, handler) ==
    [message_action |-> table, not_supported |-> handler]

\* callback_dispatch_table: the definition's default instance table with the
\* not-supported closure that reaches send_instance_message.
callback_dispatch_table(instance_table) ==
    table_with_not_supported(instance_table, "callback_dispatch_table")

\* callback_class_dispatch_table: likewise for the class object.
callback_class_dispatch_table(class_table) ==
    table_with_not_supported(class_table, "callback_class_dispatch_table")

\* callback_create_in_context: the callbacks of class class_id in the context,
\* for a definition with these default tables.
callback_create_in_context(class_id, instance_table, class_table) ==
    /\ ~class_callbacks.created
    /\ class_callbacks' =
          [created |-> TRUE, class_id |-> class_id,
           definition |-> [instance |-> instance_table, class |-> class_table],
           dispatch_table |-> callback_dispatch_table(instance_table),
           class_dispatch_table |-> callback_class_dispatch_table(class_table)]
    /\ allocator' = [h \in Handles |-> "released"]
    /\ allocator_poisoned' = FALSE
    /\ delivered' = NothingDelivered
    /\ OutsideClass

\* The allocator stores data behind a handle, or releases it, for a caller
\* that has locked it (allocator.lock().unwrap(), which a poisoned mutex
\* refuses).
allocator_store(handle, data) ==
    /\ class_callbacks.created
    /\ ~allocator_poisoned
    /\ allocator[handle] # data
    /\ allocator' = [allocator EXCEPT ![handle] = data]
    /\ delivered' = NothingDelivered
    /\ UNCHANGED <<class_callbacks, allocator_poisoned>>
    /\ OutsideClass

\* TalkClassContextCallbacks::send_message(reference, message, context)
callbacks_send_message(handle, id, args) ==
    /\ class_callbacks.created
    /\ delivered' =
          [table |-> "instance",
           message |-> send_message_to(class_callbacks.dispatch_table.message_action,
                                       class_callbacks.dispatch_table.not_supported,
                                       TalkReference(class_callbacks.class_id, handle), id, args)]
    /\ allocator_poisoned' =
          (\/ allocator_poisoned
           \/ /\ class_callbacks.dispatch_table.message_action[id] = NoAction
              /\ panics_in_retrieve(handle))
    /\ UNCHANGED <<class_callbacks, allocator>>
    /\ OutsideClass

\* TalkClassContextCallbacks::send_class_message(message, context)
callbacks_send_class_message(id, args) ==
    /\ class_callbacks.created
    /\ delivered' =
          [table |-> "class",
           message |-> send_message_to(class_callbacks.class_dispatch_table.message_action,
                                       class_callbacks.class_dispatch_table.not_supported,
                                       Unit, id, args)]
    /\ UNCHANGED <<class_callbacks, allocator, allocator_poisoned>>
    /\ OutsideClass

NextClass ==
    \/ \E class_id \in ClassIds, instance_table \in DefaultTables, class_table \in DefaultTables :
          /\ class_table \in {EmptyTable, instance_table}
          /\ callback_create_in_context(class_id, instance_table, class_table)
    \/ \E handle \in Handles, data \in {"data", "released"} : allocator_store(handle, data)
    \/ \E handle \in Handles, id \in SignatureIds, args \in Arguments :
          callbacks_send_message(handle, id, args)
    \/ \E id \in SignatureIds, args \in Arguments : callbacks_send_class_message(id, args)

(***************************************************************************)
(* Part 5: TalkContinuation combinators (and_then_if_ok and                *)
(* and_then_soon_if_ok, used by talk_stream_from in stream.rs).  A value   *)
(* is an error or not and remembers which function of the chain made it    *)
(* (0: the first continuation).  A chain is resolved the way the runtime   *)
(* drives a continuation: Soon bodies are run, Later is polled, and a      *)
(* Ready value moves on to the next function of the chain.                 *)
(***************************************************************************)
MaxChain == 2

Ok(tag) == [error |-> FALSE, tag |-> tag]
Error(tag) == [error |-> TRUE, tag |-> tag]
ChainValues(tag) == {Ok(tag), Error(tag)}

\* A chained function: the combinator that chained it, and the continuation
\* it answers when called.
ChainFns ==
    [combinator : {"and_then_if_ok", "and_then_soon_if_ok"},
     kind : {"Ready", "Soon"}, error : BOOLEAN]

\* Continuations at the head of a chain: Ready(v), Soon(f), Later(poll_fn).
HeadContinuations ==
    [kind : {"Ready", "Soon"}, value : ChainValues(0), pending : {0}]
    \cup [kind : {"Later"}, value : ChainValues(0), pending : 0..MaxPending]

Resolved == [kind |-> "None", value |-> Ok(0), pending |-> 0]
NoValue == [error |-> FALSE, tag |-> -1]

ChainInit ==
    /\ chain_head = Resolved
    /\ chain_fns = <<>>
    /\ chain_current = Resolved
    /\ chain_next = 1
    /\ chain_calls = <<>>
    /\ chain_result = NoValue

OutsideChain == UNCHANGED <<rtVars, refVars, dispatchVars, classVars, sigVars, registryVars, sceneVars, subscriberVars, idleVars, nameVars, serializationVars, filterVars, converterVars, commandVars, subclassVars, retargetVars, allocatorVars, pipeVars>>

\* The continuation function k of the chain answers for a value.
call_fn(k, fn) ==
    [kind |-> fn.kind, value |-> IF fn.error THEN Error(k) ELSE Ok(k), pending |-> 0]

\* Whether a *_if_ok combinator passes the value to its function.
passes_every_value(value) == TRUE
is_ok(value) == ~value.error

\* head.and_then_if_ok(f1).and_then_soon_if_ok(f2)...: a chain is built.
build_chain(head, fns) ==
    /\ chain_head.kind = "None"
    /\ chain_head' = head
    /\ chain_fns' = fns
    /\ chain_current' = head
    /\ chain_next' = 1
    /\ chain_calls' = [k \in DOMAIN fns |-> 0]
    /\ chain_result' = NoValue
    /\ OutsideChain

\* The runtime runs a Soon body, which answers Ready with its value.
chain_run_soon ==
    /\ chain_current.kind = "Soon"
    /\ chain_current' = [chain_current EXCEPT !.kind = "Ready"]
    /\ UNCHANGED <<chain_head, chain_fns, chain_next, chain_calls, chain_result>>
    /\ OutsideChain

\* The runtime polls a Later: Pending while it has polls to wait, then Ready.
chain_poll_later ==
    /\ chain_current.kind = "Later"
    /\ chain_current' =
          IF chain_current.pending > 0
          THEN [chain_current EXCEPT !.pending = @ - 1]
          ELSE [chain_current EXCEPT !.kind = "Ready"]
    /\ UNCHANGED <<chain_head, chain_fns, chain_next, chain_calls, chain_result>>
    /\ OutsideChain

\* A Ready value reaches the next combinator: an error bypasses the function,
\* any other value is handed to it and the chain goes on with what it answers.
chain_and_then_if_ok ==
    /\ chain_current.kind = "Ready"
    /\ chain_next <= Len(chain_fns)
    /\ LET fn == chain_fns[chain_next]
           value == chain_current.value
       IN  IF is_ok(value)
           THEN /\ chain_calls' = [chain_calls EXCEPT ![chain_next] = @ + 1]
                /\ chain_current' = call_fn(chain_next, fn)
           ELSE UNCHANGED <<chain_calls, chain_current>>
    /\ chain_next' = chain_next + 1
    /\ UNCHANGED <<chain_head, chain_fns, chain_result>>
    /\ OutsideChain

\* The last value is the value of the chain.
chain_resolve ==
    /\ chain_current.kind = "Ready"
    /\ chain_next > Len(chain_fns)
    /\ chain_result' = chain_current.value
    /\ chain_current' = Resolved
    /\ UNCHANGED <<chain_head, chain_fns, chain_next, chain_calls>>
    /\ OutsideChain

NextChain ==
    \/ \E head \in HeadContinuations, n \in 1..MaxChain :
          \E fns \in [1..n -> ChainFns] : build_chain(head, fns)
    \/ chain_run_soon
    \/ chain_poll_later
    \/ chain_and_then_if_ok
    \/ chain_resolve

\* ------------------------------------------- part 6: interning of signatures
\*
\* TalkMessageSignature::id (message.rs) interns a signature in three statics,
\* each behind its own mutex: ID_FOR_SIGNATURE, NEXT_SIGNATURE_ID and
\* SIGNATURE_FOR_ID.  Several threads call it at once; a step of the model is
\* one access to one of the statics.  A HashMap is a set of <<key, value>>
\* pairs with at most one pair per key.

OutsideSignatures == UNCHANGED <<rtVars, refVars, dispatchVars, classVars, chainVars, registryVars, sceneVars, subscriberVars, idleVars, nameVars, serializationVars, filterVars, converterVars, commandVars, subclassVars, retargetVars, allocatorVars, pipeVars>>

Signatures == {"value", "at:", "at:put:"}

NoId == -1

NoSignature == "panic"

\* HashMap::get
HashMap_get(map, key, missing) ==
    IF \E p \in map : p[1] = key
    THEN (CHOOSE p \in map : p[1] = key)[2]
    ELSE missing

\* HashMap::insert: the new value replaces the one the key had
HashMap_insert(map, key, value) ==
    {p \in map : p[1] # key} \cup {<<key, value>>}

SigInit ==
    /\ next_signature_id = 0
    /\ id_for_signature = {}
    /\ signature_for_id = {}
    /\ id_lock = NoThread
    /\ sig_pc = [t \in Threads |-> "idle"]
    /\ sig_arg = [t \in Threads |-> NoSignature]
    /\ sig_new_id = [t \in Threads |-> NoId]
    /\ returned = {}
    /\ converted = {}

\* a thread calls signature.id()
id_call(t, signature) ==
    /\ sig_pc[t] = "idle"
    /\ sig_pc' = [sig_pc EXCEPT ![t] = "lock"]
    /\ sig_arg' = [sig_arg EXCEPT ![t] = signature]
    /\ UNCHANGED <<next_signature_id, id_for_signature, signature_for_id, id_lock,
                   sig_new_id, returned, converted>>
    /\ OutsideSignatures

\* a mutex that excludes nobody
lock_not_exclusive(t) == TRUE

\* ID_FOR_SIGNATURE.lock(): the caller waits while another thread has the guard
ID_FOR_SIGNATURE_lock(t) == id_lock = NoThread

\* let id_for_signature = ID_FOR_SIGNATURE.lock().unwrap();
id_lock_table(t) ==
    /\ sig_pc[t] = "lock"
    /\ ID_FOR_SIGNATURE_lock(t)
    /\ id_lock' = t
    /\ sig_pc' = [sig_pc EXCEPT ![t] = "get"]
    /\ UNCHANGED <<next_signature_id, id_for_signature, signature_for_id, sig_arg,
                   sig_new_id, returned, converted>>
    /\ OutsideSignatures

\* if let Some(id) = id_for_signature.get(self) { *id }: the guard is dropped
\* as the function returns
id_get_existing(t) ==
    /\ sig_pc[t] = "get"
    /\ HashMap_get(id_for_signature, sig_arg[t], NoId) # NoId
    /\ returned' = returned \cup
           {<<sig_arg[t], HashMap_get(id_for_signature, sig_arg[t], NoId)>>}
    /\ id_lock' = NoThread
    /\ sig_pc' = [sig_pc EXCEPT ![t] = "idle"]
    /\ sig_arg' = [sig_arg EXCEPT ![t] = NoSignature]
    /\ UNCHANGED <<next_signature_id, id_for_signature, signature_for_id, sig_new_id,
                   converted>>
    /\ OutsideSignatures

\* else: let new_id = { let mut next = NEXT_SIGNATURE_ID.lock(); let new_id =
\* *next; *next += 1; new_id }
id_next_signature_id(t) ==
    /\ sig_pc[t] = "get"
    /\ HashMap_get(id_for_signature, sig_arg[t], NoId) = NoId
    /\ sig_new_id' = [sig_new_id EXCEPT ![t] = next_signature_id]
    /\ next_signature_id' = next_signature_id + 1
    /\ sig_pc' = [sig_pc EXCEPT ![t] = "insert"]
    /\ UNCHANGED <<id_for_signature, signature_for_id, id_lock, sig_arg, returned,
                   converted>>
    /\ OutsideSignatures

\* id_for_signature.insert(self.clone(), new_id);
id_insert(t) ==
    /\ sig_pc[t] = "insert"
    /\ id_for_signature' = HashMap_insert(id_for_signature, sig_arg[t], sig_new_id[t])
    /\ sig_pc' = [sig_pc EXCEPT ![t] = "insert_reverse"]
    /\ UNCHANGED <<next_signature_id, signature_for_id, id_lock, sig_arg, sig_new_id,
                   returned, converted>>
    /\ OutsideSignatures

\* SIGNATURE_FOR_ID.lock().unwrap().insert(new_id, self.clone()); new_id
id_insert_reverse(t) ==
    /\ sig_pc[t] = "insert_reverse"
    /\ signature_for_id' = HashMap_insert(signature_for_id, sig_new_id[t], sig_arg[t])
    /\ returned' = returned \cup {<<sig_arg[t], sig_new_id[t]>>}
    /\ id_lock' = NoThread
    /\ sig_pc' = [sig_pc EXCEPT ![t] = "idle"]
    /\ sig_arg' = [sig_arg EXCEPT ![t] = NoSignature]
    /\ sig_new_id' = [sig_new_id EXCEPT ![t] = NoId]
    /\ UNCHANGED <<next_signature_id, id_for_signature, converted>>
    /\ OutsideSignatures

\* TalkMessageSignatureId::to_signature, on an id that id() has returned:
\* SIGNATURE_FOR_ID.lock().unwrap().get(self).unwrap().clone()
to_signature(t, id) ==
    /\ sig_pc[t] = "idle"
    /\ \E p \in returned : p[2] = id
    /\ converted' = converted \cup
           {<<id, HashMap_get(signature_for_id, id, NoSignature)>>}
    /\ UNCHANGED <<next_signature_id, id_for_signature, signature_for_id, id_lock,
                   sig_pc, sig_arg, sig_new_id, returned>>
    /\ OutsideSignatures

ReturnedIds == {p[2] : p \in returned}

NextSignatures ==
    \/ \E t \in Threads, signature \in Signatures : id_call(t, signature)
    \/ \E t \in Threads : id_lock_table(t)
    \/ \E t \in Threads : id_get_existing(t)
    \/ \E t \in Threads : id_next_signature_id(t)
    \/ \E t \in Threads : id_insert(t)
    \/ \E t \in Threads : id_insert_reverse(t)
    \/ \E t \in Threads, id \in ReturnedIds : to_signature(t, id)

\* ------------------------------------------------ part 7: the class registry
\*
\* TalkClass::create (class.rs) registers a class in three statics, each
\* behind its own mutex: NEXT_CLASS_ID, CLASS_DEFINITIONS and CLASS_CALLBACKS.
\* The vectors are sequences; the entry of class id idx is at index idx + 1.
\* Several threads call create at once, the thread of the context among them
\* (`new` of the script class class); the steps of create are defined with
\* the context's operations in part 2.

\* (*CLASS_CALLBACKS.lock().unwrap())[idx].unwrap() of make_local_callbacks
make_local_callbacks(idx) ==
    IF idx + 1 \in DOMAIN CLASS_CALLBACKS THEN CLASS_CALLBACKS[idx + 1] ELSE "None"

\* the definition stored for a class
class_definition(idx) ==
    IF idx + 1 \in DOMAIN CLASS_DEFINITIONS THEN CLASS_DEFINITIONS[idx + 1] ELSE "None"

NextRegistry ==
    \/ \E t \in Threads, definition \in ClassDefinitions : create_new(t, definition)
    \/ script_class_new
    \/ \E t \in Creators : create_lock_definitions(t)
    \/ \E t \in Creators : create_store_definition(t)
    \/ \E t \in Creators : create_lock_callbacks(t)
    \/ \E t \in Creators : create_store_callbacks(t)
    \/ \E h \in Handles : script_class_new_store(h)

\* --------------------------------- part 8: scene streams and the connections
\*
\* Input streams, output sinks and the router's connections (spec 4.8, 4.9).
\* Only connect_output_to_input (stream_id.rs) is in the sources at hand; the
\* input stream core, the sink's send and the router follow the spec.
\* Producers are subprograms that each send the messages 1, 2, ... through
\* one output sink, MaxMessages between them; consumers are subprograms that
\* read an input stream.

OutsideScene == UNCHANGED <<rtVars, refVars, dispatchVars, classVars, chainVars, sigVars, registryVars, subscriberVars, idleVars, nameVars, serializationVars, filterVars, converterVars, commandVars, subclassVars, retargetVars, allocatorVars, pipeVars>>

MaxMessages == 3

MaxBuffer == 1

MaxConnects == 2

Producers == {"p1", "p2"}

Consumers == {"c1", "c2"}

\* source specs of a connection: one subprogram, or any source
AnySource == [kind |-> "any", id |-> "any"]
Program(p) == [kind |-> "program", id |-> p]
Sources == {AnySource} \cup {Program(p) : p \in Producers}

\* InputStreamCore: the waiting messages and the size of the buffer
NoInputStream == [state |-> "none", waiting_messages |-> <<>>, max_waiting |-> 0]
InputStreamCore(buffer_size) ==
    [state |-> "open", waiting_messages |-> <<>>, max_waiting |-> buffer_size]

\* OutputSinkTarget
Disconnected == [kind |-> "Disconnected", input |-> "none"]
Input(c) == [kind |-> "Input", input |-> c]
CloseWhenDropped(c) == [kind |-> "CloseWhenDropped", input |-> c]

\* OutputSinkCore: the target, and the waker of a caller that is blocked
OutputSinkCore(target, waker) == [target |-> target, when_target_changed |-> waker]

SceneInit ==
    /\ input_core = [c \in Consumers |-> NoInputStream]
    /\ output_sink = [p \in Producers |-> OutputSinkCore(Disconnected, FALSE)]
    /\ connections = {}
    /\ connects = 0
    /\ send_pc = [p \in Producers |-> "idle"]
    /\ next_message = [p \in Producers |-> 1]
    /\ received = [c \in Consumers |-> [p \in Producers |-> <<>>]]

\* The rule the router finds for a sink of program p: the exact match when
\* there is one, the any-source match otherwise.
best_rule(rules, p) ==
    IF \E r \in rules : r.source = Program(p)
    THEN {r \in rules : r.source = Program(p)}
    ELSE {r \in rules : r.source = AnySource}

\* the target the router resolves for a sink of program p
resolve(rules, p) ==
    IF best_rule(rules, p) = {} THEN Disconnected
    ELSE Input((CHOOSE r \in best_rule(rules, p) : TRUE).target)

\* a connection that leaves the sink on its old target
connect_output_to_nothing(sink, input_stream, close_when_dropped) ==
    OutputSinkCore(sink.target, FALSE)

\* connect_output_to_input: output_sink.target = Input(input_stream); the
\* waker in when_target_changed is taken, for the caller to wake
connect_output_to_input(sink, input_stream, close_when_dropped) ==
    OutputSinkCore(IF ~close_when_dropped THEN Input(input_stream)
                   ELSE CloseWhenDropped(input_stream), FALSE)

\* InputStreamCore push: Ready when the buffer has a slot
has_slot(core) == core.state = "open" /\ Len(core.waiting_messages) <= core.max_waiting

\* a buffer that hands the newest message over first
push_in_front(waiting_messages, message) == <<message>> \o waiting_messages

\* InputStreamCore push, when Ready: the message joins the end of the buffer
InputStreamCore_push(waiting_messages, message) == Append(waiting_messages, message)

\* add_subprogram(id, body-fn, buffer-size): the subprogram's input stream
add_subprogram(c, buffer_size) ==
    /\ input_core[c].state = "none"
    /\ input_core' = [input_core EXCEPT ![c] = InputStreamCore(buffer_size)]
    /\ UNCHANGED <<output_sink, connections, connects, send_pc, next_message, received>>
    /\ OutsideScene

\* connect_programs(source, target, stream_id): the rule replaces the one the
\* key had; every sink the rule is the best rule for is connected to the
\* target's input stream and the caller blocked on it is woken
connect_programs(source, target) ==
    /\ connects < MaxConnects
    /\ input_core[target].state = "open"
    /\ LET rules == {r \in connections : r.source # source}
                        \cup {[source |-> source, target |-> target]}
           rerouted == {p \in Producers :
                            best_rule(rules, p) = {[source |-> source, target |-> target]}}
       IN  /\ connections' = rules
           /\ output_sink' = [p \in Producers |->
                                IF p \in rerouted
                                THEN connect_output_to_input(output_sink[p], target, FALSE)
                                ELSE output_sink[p]]
           /\ send_pc' = [p \in Producers |->
                                IF p \in rerouted /\ output_sink[p].when_target_changed
                                THEN "woken" ELSE send_pc[p]]
    /\ connects' = connects + 1
    /\ UNCHANGED <<input_core, next_message, received>>
    /\ OutsideScene

\* one poll of a send, the first or one after the caller was woken (a
\* message notes which, and the target of the rule in force as it is
\* pushed): parked while the sink is disconnected or the input stream has no
\* slot, otherwise the message is pushed and send returns
poll_send(p) ==
    LET target == output_sink[p].target
    IN  IF target # Disconnected /\ has_slot(input_core[target.input])
        THEN /\ input_core' = [input_core EXCEPT ![target.input].waiting_messages =
                     InputStreamCore_push(@, [from |-> p, n |-> next_message[p],
                                              rule |-> resolve(connections, p).input,
                                              woken |-> send_pc[p] = "woken"])]
             /\ next_message' = [next_message EXCEPT ![p] = @ + 1]
             /\ send_pc' = [send_pc EXCEPT ![p] = "idle"]
             /\ UNCHANGED output_sink
        ELSE /\ output_sink' = [output_sink EXCEPT ![p].when_target_changed = TRUE]
             /\ send_pc' = [send_pc EXCEPT ![p] = "parked"]
             /\ UNCHANGED <<input_core, next_message>>

\* the sends called so far: the ones that returned and the ones in progress
MessagesSent ==
    SumOver([p \in Producers |-> next_message[p] - 1], Producers)
        + Cardinality({p \in Producers : send_pc[p] # "idle"})

\* sink.send(message).await, up to its first poll
send(p) ==
    /\ send_pc[p] = "idle"
    /\ MessagesSent < MaxMessages
    /\ poll_send(p)
    /\ UNCHANGED <<connections, connects, received>>
    /\ OutsideScene

\* the poll of a send whose caller was woken
send_poll(p) ==
    /\ send_pc[p] = "woken"
    /\ poll_send(p)
    /\ UNCHANGED <<connections, connects, received>>
    /\ OutsideScene

\* the consumer reads the next message of its input stream; the senders
\* waiting for a slot of this stream are woken
input_stream_next(c) ==
    /\ input_core[c].state = "open"
    /\ input_core[c].waiting_messages # <<>>
    /\ LET message == Head(input_core[c].waiting_messages)
       IN  received' = [received EXCEPT ![c][message.from] = Append(@, message.n)]
    /\ input_core' = [input_core EXCEPT ![c].waiting_messages = Tail(@)]
    /\ send_pc' = [p \in Producers |->
                        IF send_pc[p] = "parked" /\ output_sink[p].target.input = c
                        THEN "woken" ELSE send_pc[p]]
    /\ output_sink' = [p \in Producers |->
                        IF send_pc[p] = "parked" /\ output_sink[p].target.input = c
                        THEN OutputSinkCore(output_sink[p].target, FALSE)
                        ELSE output_sink[p]]
    /\ UNCHANGED <<connections, connects, next_message>>
    /\ OutsideScene

NextScene ==
    \/ \E c \in Consumers, buffer_size \in 0..MaxBuffer : add_subprogram(c, buffer_size)
    \/ \E source \in Sources, target \in Consumers : connect_programs(source, target)
    \/ \E p \in Producers : send(p)
    \/ \E p \in Producers : send_poll(p)
    \/ \E c \in Consumers : input_stream_next(c)

\* ------------------------------------------------- part 9: event subscribers
\*
\* EventSubscribers (subscription.rs): the list of (program, output sink) a
\* subprogram broadcasts its events to.  A sink's send fails once the
\* program it targets has ended.

OutsideSubscribers == UNCHANGED <<rtVars, refVars, dispatchVars, classVars, chainVars, sigVars, registryVars, sceneVars, idleVars, nameVars, serializationVars, filterVars, converterVars, commandVars, subclassVars, retargetVars, allocatorVars, pipeVars>>

MaxReceivers == 3

SubPrograms == {"s1", "s2", "s3"}

NoSend == [receivers |-> <<>>, results |-> <<>>, returned |-> FALSE, sent |-> FALSE]

SubscribersInit ==
    /\ receivers = <<>>
    /\ ended = {}
    /\ last_send = NoSend
    /\ subscribers_pc = "idle"
    /\ join_all = <<>>

\* sender.send(message.clone()): an error once the target program has ended
sender_send(program, ended_programs) ==
    IF program \in ended_programs THEN "Err" ELSE "Ok"

\* Vec::remove(idx), idx counted from 0
Vec_remove(vec, idx) ==
    [i \in 1..(Len(vec) - 1) |-> IF i <= idx THEN vec[i] ELSE vec[i + 1]]

\* the results taken from the first to the last
in_order(results) == results

\* results.into_iter().rev()
rev(results) == [i \in DOMAIN results |-> results[Len(results) + 1 - i]]

\* the loop over the results: a subscriber whose send failed is removed
RECURSIVE remove_failed(_, _)
remove_failed(subscribers, results) ==
    IF results = <<>> THEN subscribers
    ELSE LET idx == Head(results)[1]
             is_err == Head(results)[2] = "Err"
         IN  remove_failed(IF is_err /\ idx < Len(subscribers)
                           THEN Vec_remove(subscribers, idx)
                           ELSE subscribers,
                           Tail(results))

\* a broadcast that counts any subscriber as a delivery
any_subscriber(results) == results # <<>>

\* sent_successfully: some result is not an error
sent_successfully(results) == \E i \in DOMAIN results : results[i][2] # "Err"

\* subscribe(program, context): the program and a sink to it join the list,
\* unless the sink cannot be opened
subscribe(program) ==
    /\ subscribers_pc = "idle"
    /\ Len(receivers) < MaxReceivers
    /\ program \notin ended
    /\ receivers' = Append(receivers, program)
    /\ last_send' = NoSend
    /\ UNCHANGED <<ended, subscribers_pc, join_all>>
    /\ OutsideSubscribers

\* a subscribed program ends: its input stream is dropped
program_ends(program) ==
    /\ program \notin ended
    /\ \E i \in DOMAIN receivers : receivers[i] = program
    /\ ended' = ended \cup {program}
    /\ last_send' = NoSend
    /\ UNCHANGED <<receivers, subscribers_pc, join_all>>
    /\ OutsideSubscribers

\* EventSubscribers::send(message): a send future is made for every sender
\* and the call waits in future::join_all(senders).await
EventSubscribers_send ==
    /\ subscribers_pc = "idle"
    /\ subscribers_pc' = "join_all"
    /\ join_all' = [i \in DOMAIN receivers |-> "Pending"]
    /\ last_send' = NoSend
    /\ UNCHANGED <<receivers, ended>>
    /\ OutsideSubscribers

\* a poll of join_all in which the send of one sender completes: its sink has
\* taken the message, or the program it targets has ended
join_all_sender(i) ==
    /\ subscribers_pc = "join_all"
    /\ i \in DOMAIN join_all /\ join_all[i] = "Pending"
    /\ join_all' = [join_all EXCEPT ![i] = sender_send(receivers[i], ended)]
    /\ UNCHANGED <<receivers, ended, last_send, subscribers_pc>>
    /\ OutsideSubscribers

\* every send has completed: the results are sorted by index, the failed
\* senders are removed from the last to the first, and send returns
EventSubscribers_send_returns ==
    /\ subscribers_pc = "join_all"
    /\ \A i \in DOMAIN join_all : join_all[i] # "Pending"
    /\ LET results == [i \in DOMAIN receivers |-> <<i - 1, join_all[i]>>]
       IN  /\ receivers' = remove_failed(receivers, rev(results))
           /\ last_send' = [receivers |-> receivers, results |-> results,
                            returned |-> sent_successfully(results), sent |-> TRUE]
    /\ subscribers_pc' = "idle"
    /\ join_all' = <<>>
    /\ UNCHANGED ended
    /\ OutsideSubscribers

NextSubscribers ==
    \/ \E program \in SubPrograms : subscribe(program)
    \/ \E program \in SubPrograms : program_ends(program)
    \/ EventSubscribers_send
    \/ \E i \in 1..MaxReceivers : join_all_sender(i)
    \/ EventSubscribers_send_returns

\* ------------------------------------------------ part 10: idle notification
\*
\* The idle request program (idle_program_tests.rs): a scene is idle when it
\* has processed all of the messages that have been sent and is waiting for
\* new ones.  The scene core and the idle program are not in the sources at
\* hand; the model follows the spec and the tests.  A subprogram is awake
\* from the moment it is started or woken until a poll of it finds nothing to
\* do; a push into the input stream of a subprogram that reads it wakes it.

OutsideIdle == UNCHANGED <<rtVars, refVars, dispatchVars, classVars, chainVars, sigVars, registryVars, sceneVars, subscriberVars, nameVars, serializationVars, filterVars, converterVars, commandVars, subclassVars, retargetVars, allocatorVars, pipeVars>>

MaxRequests == 2

MaxSent == 2

SubProgramIds == {"test", "other"}

IdleProgram == "idle"

\* what the body of a subprogram does with its input stream
Bodies == {"reads", "drops_input"}

IdleInit ==
    /\ body = [s \in SubProgramIds |-> "none"]
    /\ awake = {}
    /\ inbox = [s \in SubProgramIds |-> 0]
    /\ messages_sent = 0
    /\ idle_inbox = <<>>
    /\ when_idle = <<>>
    /\ idle_requests = [s \in SubProgramIds |-> 0]
    /\ notifications = [s \in SubProgramIds |-> 0]

\* a core that takes any moment for an idle one
always_idle(awake_programs) == TRUE

\* the scene core finds no subprogram awake
scene_is_idle(awake_programs) == awake_programs = {}

\* how many times a target occurs in a sequence of requests
Requests(waiting, target) ==
    Cardinality({i \in DOMAIN waiting : waiting[i] = target})

\* scene.add_subprogram(id, body, buffer_size): the subprogram starts awake
start_subprogram(s, kind) ==
    /\ body[s] = "none"
    /\ body' = [body EXCEPT ![s] = kind]
    /\ awake' = awake \cup {s}
    /\ UNCHANGED <<inbox, messages_sent, idle_inbox, when_idle, idle_requests, notifications>>
    /\ OutsideIdle

\* a poll of a subprogram that is awake: it reads the next message of its
\* input stream, or finds none and waits; a body that dropped its input
\* stream awaits a future that never completes
poll_subprogram(s) ==
    /\ s \in awake
    /\ IF body[s] = "reads" /\ inbox[s] > 0
       THEN /\ inbox' = [inbox EXCEPT ![s] = @ - 1]
            /\ UNCHANGED awake
       ELSE /\ awake' = awake \ {s}
            /\ UNCHANGED inbox
    /\ UNCHANGED <<body, messages_sent, idle_inbox, when_idle, idle_requests, notifications>>
    /\ OutsideIdle

\* a running subprogram sends a message to another one: it is pushed and the
\* reader woken; the send fails if the target dropped its input stream
send_to_subprogram(s, target) ==
    /\ s \in awake /\ body[s] = "reads"
    /\ body[target] # "none"
    /\ messages_sent < MaxSent
    /\ messages_sent' = messages_sent + 1
    /\ IF body[target] = "reads"
       THEN /\ inbox' = [inbox EXCEPT ![target] = @ + 1]
            /\ awake' = awake \cup {target}
       ELSE UNCHANGED <<awake, inbox>>
    /\ UNCHANGED <<body, idle_inbox, when_idle, idle_requests, notifications>>
    /\ OutsideIdle

\* a running subprogram sends IdleRequest::WhenIdle(target) to the idle program
send_idle_request(s, target) ==
    /\ s \in awake /\ body[s] = "reads"
    /\ body[target] = "reads"
    /\ SumOver(idle_requests, SubProgramIds) < MaxRequests
    /\ idle_inbox' = Append(idle_inbox, target)
    /\ idle_requests' = [idle_requests EXCEPT ![target] = @ + 1]
    /\ awake' = awake \cup {IdleProgram}
    /\ UNCHANGED <<body, inbox, messages_sent, when_idle, notifications>>
    /\ OutsideIdle

\* a poll of the idle program: it reads the next request and keeps its
\* target for when the scene is idle, or finds none and waits
poll_idle_program ==
    /\ IdleProgram \in awake
    /\ IF idle_inbox # <<>>
       THEN /\ when_idle' = Append(when_idle, Head(idle_inbox))
            /\ idle_inbox' = Tail(idle_inbox)
            /\ UNCHANGED awake
       ELSE /\ awake' = awake \ {IdleProgram}
            /\ UNCHANGED <<idle_inbox, when_idle>>
    /\ UNCHANGED <<body, inbox, messages_sent, idle_requests, notifications>>
    /\ OutsideIdle

\* the scene is idle: the idle program sends an IdleNotification to the
\* target of every request it keeps, which wakes the targets
notify_idle ==
    /\ scene_is_idle(awake)
    /\ when_idle # <<>>
    /\ notifications' = [s \in SubProgramIds |-> notifications[s] + Requests(when_idle, s)]
    /\ inbox' = [s \in SubProgramIds |-> inbox[s] + Requests(when_idle, s)]
    /\ awake' = awake \cup {s \in SubProgramIds : Requests(when_idle, s) > 0}
    /\ when_idle' = <<>>
    /\ UNCHANGED <<body, messages_sent, idle_inbox, idle_requests>>
    /\ OutsideIdle

NextIdle ==
    \/ \E s \in SubProgramIds, kind \in Bodies : start_subprogram(s, kind)
    \/ \E s \in SubProgramIds : poll_subprogram(s)
    \/ \E s \in SubProgramIds, target \in SubProgramIds : send_to_subprogram(s, target)
    \/ \E s \in SubProgramIds, target \in SubProgramIds : send_idle_request(s, target)
    \/ poll_idle_program
    \/ notify_idle

\* ------------------------------------------------ part 11: subprogram names
\*
\* SubProgramId::called (subprogram_id.rs) interns a name in two statics, each
\* behind its own RwLock: IDS_FOR_NAMES and NAMES_FOR_IDS.  Every lock is held
\* for one block only, so a step of the model is one such block.  A named id
\* serialises as its name and a name deserialises through id_for_name.

OutsideNames == UNCHANGED <<rtVars, refVars, dispatchVars, classVars, chainVars, sigVars, registryVars, sceneVars, subscriberVars, idleVars, serializationVars, filterVars, converterVars, commandVars, subclassVars, retargetVars, allocatorVars, pipeVars>>

MaxNameCalls == 3

Names == {"test", "another_test"}

NoName == "None"

NamesInit ==
    /\ IDS_FOR_NAMES = {}
    /\ NAMES_FOR_IDS = <<>>
    /\ name_call = [t \in Threads |-> [at |-> "idle", name |-> NoName, id |-> NoId, of |-> NoId]]
    /\ named = {}
    /\ round_trips = {}
    /\ name_calls = 0

\* name_for_id: None for an id that was never assigned
name_for_id(id) ==
    IF id + 1 \in DOMAIN NAMES_FOR_IDS THEN NAMES_FOR_IDS[id + 1] ELSE NoName

\* what a call of id_for_name that started for `of` hands back: to the caller
\* of SubProgramId::called (of = NoId), or to the deserializer of the name that
\* the id `of` was serialised as
id_for_name_returns(t, name, id, of) ==
    /\ name_call' = [name_call EXCEPT ![t] = [at |-> "idle", name |-> NoName, id |-> NoId, of |-> NoId]]
    /\ IF of = NoId
       THEN /\ named' = named \cup {<<name, id>>}
            /\ UNCHANGED round_trips
       ELSE /\ round_trips' = round_trips \cup {[id |-> of, name |-> name, back |-> id]}
            /\ UNCHANGED named

\* the first block of id_for_name: the lookup under the read lock, and the
\* return of the id that is found
id_for_name(t, name, of) ==
    LET id == HashMap_get(IDS_FOR_NAMES, name, NoId) IN
    /\ IF id # NoId
       THEN id_for_name_returns(t, name, id, of)
       ELSE /\ name_call' = [name_call EXCEPT ![t] = [at |-> "push", name |-> name, id |-> NoId, of |-> of]]
            /\ UNCHANGED <<named, round_trips>>
    /\ UNCHANGED <<IDS_FOR_NAMES, NAMES_FOR_IDS>>

\* SubProgramId::called(name)
called(t, name) ==
    /\ name_call[t].at = "idle"
    /\ name_calls < MaxNameCalls
    /\ name_calls' = name_calls + 1
    /\ id_for_name(t, name, NoId)
    /\ OutsideNames

\* the second block of id_for_name: the id is the length of NAMES_FOR_IDS,
\* which gets the name, under the write lock of NAMES_FOR_IDS
id_for_name_push(t) ==
    /\ name_call[t].at = "push"
    /\ NAMES_FOR_IDS' = Append(NAMES_FOR_IDS, name_call[t].name)
    /\ name_call' = [name_call EXCEPT ![t].at = "insert", ![t].id = Len(NAMES_FOR_IDS)]
    /\ UNCHANGED <<IDS_FOR_NAMES, named, round_trips, name_calls>>
    /\ OutsideNames

\* the last block of id_for_name: the name gets the id in IDS_FOR_NAMES, under
\* its write lock, and the id is returned
id_for_name_insert(t) ==
    /\ name_call[t].at = "insert"
    /\ IDS_FOR_NAMES' = HashMap_insert(IDS_FOR_NAMES, name_call[t].name, name_call[t].id)
    /\ id_for_name_returns(t, name_call[t].name, name_call[t].id, name_call[t].of)
    /\ UNCHANGED <<NAMES_FOR_IDS, name_calls>>
    /\ OutsideNames

\* Serialize for SubProgramNameId: the id that some call returned is written as
\* name_for_id(id).unwrap()
SubProgramNameId_serialize(t, id) ==
    /\ name_call[t].at = "idle"
    /\ name_calls < MaxNameCalls
    /\ name_for_id(id) # NoName
    /\ name_calls' = name_calls + 1
    /\ name_call' = [name_call EXCEPT ![t] = [at |-> "serialized", name |-> name_for_id(id), id |-> NoId, of |-> id]]
    /\ UNCHANGED <<IDS_FOR_NAMES, NAMES_FOR_IDS, named, round_trips>>
    /\ OutsideNames

\* Deserialize for SubProgramNameId: id_for_name of the string that is read
SubProgramNameId_deserialize(t) ==
    /\ name_call[t].at = "serialized"
    /\ id_for_name(t, name_call[t].name, name_call[t].of)
    /\ UNCHANGED name_calls
    /\ OutsideNames

NextNames ==
    \/ \E t \in Threads, name \in Names : called(t, name)
    \/ \E t \in Threads : id_for_name_push(t)
    \/ \E t \in Threads : id_for_name_insert(t)
    \/ \E t \in Threads, p \in named : SubProgramNameId_serialize(t, p[2])
    \/ \E t \in Threads : SubProgramNameId_deserialize(t)

\* --------------------------------------------- part 12: serializer registries
\*
\* serialization.rs keeps the serializers in process-wide maps, each behind its
\* own lock.  install_serializable_type and install_serializers are called by
\* several threads at once and a step of a call is one block under one lock, or
\* one call of scene.connect_programs; serializer_filter does all of its work
\* under one mutex and send_serialized under one read lock.
\* FilterHandle::for_filter is not part of the sources: a handle is an opaque
\* id, a new one per filter.

OutsideSerialization == UNCHANGED <<rtVars, refVars, dispatchVars, classVars, chainVars, sigVars, registryVars, sceneVars, subscriberVars, idleVars, nameVars, filterVars, converterVars, commandVars, subclassVars, retargetVars, allocatorVars, pipeVars>>

MaxInstalls == 3

MessageTypes == {"TestMessage", "OtherMessage"}

Serializers == {"Serializer"}

TypeNames == {"test::message", "test::other"}

NoType == "None"

NoHandle == -1

NoFilters == <<>>

\* TSerializer::Ok
SerializerOk(serializer) == "Value"

SerializationInit ==
    /\ SERIALIZABLE_MESSAGE_TYPE_NAMES = {}
    /\ SEND_SERIALIZED = {}
    /\ CREATE_ANY_SERIALIZER = {}
    /\ TYPED_SERIALIZERS = {}
    /\ FILTERS_FOR_TYPE = {}
    /\ install_FILTERS_FOR_TYPE = {}
    /\ next_filter_handle = 0
    /\ installing = [t \in Threads |-> [at |-> "idle"]]
    /\ first_type = [n \in TypeNames |-> NoType]
    /\ resolved = {}
    /\ filters = {}
    /\ installs = 0

\* the message type that a name was registered for first
note_first_type(names, type_name, message_type) ==
    IF names[type_name] = NoType THEN [names EXCEPT ![type_name] = message_type] ELSE names

\* FilterHandle::for_filter
for_filter(next_handle) == next_handle

\* install_serializer::<TSerializer>(create_serializer)
install_serializer(serializer) ==
    /\ CREATE_ANY_SERIALIZER' = CREATE_ANY_SERIALIZER \cup {serializer}
    /\ UNCHANGED <<SERIALIZABLE_MESSAGE_TYPE_NAMES, SEND_SERIALIZED, TYPED_SERIALIZERS, FILTERS_FOR_TYPE,
                   install_FILTERS_FOR_TYPE, next_filter_handle, installing, first_type, resolved, filters,
                   installs>>
    /\ OutsideSerialization

\* the name that install_serializable_type finds for the message type is
\* another one
name_in_use(type_names, message_type, type_name) ==
    LET existing_type_name == HashMap_get(type_names, message_type, NoName) IN
    existing_type_name # NoName /\ existing_type_name # type_name

\* install_serializable_type::<TMessageType, TSerializer>(type_name): the block
\* under the write lock of SERIALIZABLE_MESSAGE_TYPE_NAMES, where the name of
\* the type is stored unless the type has another name
install_serializable_type(t, message_type, serializer, type_name) ==
    /\ installing[t].at = "idle"
    /\ installs < MaxInstalls
    /\ installs' = installs + 1
    /\ IF name_in_use(SERIALIZABLE_MESSAGE_TYPE_NAMES, message_type, type_name)
       THEN \* Err("Serialization type name has been used by another type")
            UNCHANGED <<SERIALIZABLE_MESSAGE_TYPE_NAMES, first_type, installing>>
       ELSE /\ SERIALIZABLE_MESSAGE_TYPE_NAMES' =
                    IF HashMap_get(SERIALIZABLE_MESSAGE_TYPE_NAMES, message_type, NoName) = NoName
                    THEN HashMap_insert(SERIALIZABLE_MESSAGE_TYPE_NAMES, message_type, type_name)
                    ELSE SERIALIZABLE_MESSAGE_TYPE_NAMES
            /\ first_type' = note_first_type(first_type, type_name, message_type)
            /\ installing' = [installing EXCEPT ![t] =
                    [at |-> "create_any_serializer",
                     message_type |-> message_type, serializer |-> serializer, type_name |-> type_name,
                     type_names |-> SERIALIZABLE_MESSAGE_TYPE_NAMES]]
    /\ UNCHANGED <<SEND_SERIALIZED, CREATE_ANY_SERIALIZER, TYPED_SERIALIZERS, FILTERS_FOR_TYPE,
                   install_FILTERS_FOR_TYPE, next_filter_handle, resolved, filters>>
    /\ OutsideSerialization

\* install_serializable_type: the constructor of the serializer is fetched
\* under the read lock of CREATE_ANY_SERIALIZER; the call returns an error when
\* install_serializer has not stored one
install_serializable_type_new_serializer(t) ==
    LET call == installing[t] IN
    /\ call.at = "create_any_serializer"
    /\ installing' = [installing EXCEPT ![t] =
            IF call.serializer \in CREATE_ANY_SERIALIZER
            THEN [call EXCEPT !.at = "typed_serializers"]
            ELSE \* Err("Serializer has not been installed by install_serializer()")
                 [at |-> "idle"]]
    /\ UNCHANGED <<SERIALIZABLE_MESSAGE_TYPE_NAMES, SEND_SERIALIZED, CREATE_ANY_SERIALIZER, TYPED_SERIALIZERS,
                   FILTERS_FOR_TYPE, install_FILTERS_FOR_TYPE, next_filter_handle, first_type, resolved,
                   filters, installs>>
    /\ OutsideSerialization

\* install_serializable_type: the serializer and the deserializer are stored
\* under the write lock of TYPED_SERIALIZERS and the call returns Ok(())
install_serializable_type_typed_serializers(t) ==
    LET call == installing[t] IN
    /\ call.at = "typed_serializers"
    /\ TYPED_SERIALIZERS' = TYPED_SERIALIZERS \cup
            {<<call.message_type, SerializerOk(call.serializer)>>,
             <<SerializerOk(call.serializer), call.message_type>>}
    /\ installing' = [installing EXCEPT ![t] = [at |-> "idle"]]
    /\ UNCHANGED <<SERIALIZABLE_MESSAGE_TYPE_NAMES, SEND_SERIALIZED, CREATE_ANY_SERIALIZER,
                   FILTERS_FOR_TYPE, install_FILTERS_FOR_TYPE, next_filter_handle, first_type, resolved,
                   filters, installs>>
    /\ OutsideSerialization

\* serializer_filter::<TSourceType, TTargetType>(), all of it under the mutex
\* of FILTERS_FOR_TYPE
serializer_filter(source_type, target_type) ==
    LET message_type == <<source_type, target_type>>
        filter == HashMap_get(FILTERS_FOR_TYPE, message_type, NoHandle)
    IN
    /\ installs < MaxInstalls
    /\ installs' = installs + 1
    /\ IF filter # NoHandle
       THEN /\ filters' = filters \cup {[call |-> "serializer_filter", key |-> message_type, filter |-> filter]}
            /\ UNCHANGED <<FILTERS_FOR_TYPE, next_filter_handle>>
       ELSE IF message_type \notin TYPED_SERIALIZERS
       THEN \* Err("The requested serializers are not installed")
            UNCHANGED <<FILTERS_FOR_TYPE, next_filter_handle, filters>>
       ELSE LET filter_handle == for_filter(next_filter_handle) IN
            /\ next_filter_handle' = next_filter_handle + 1
            /\ FILTERS_FOR_TYPE' = HashMap_insert(FILTERS_FOR_TYPE, message_type, filter_handle)
            /\ filters' = filters \cup {[call |-> "serializer_filter", key |-> message_type, filter |-> filter_handle]}
    /\ UNCHANGED <<SERIALIZABLE_MESSAGE_TYPE_NAMES, SEND_SERIALIZED, CREATE_ANY_SERIALIZER, TYPED_SERIALIZERS,
                   install_FILTERS_FOR_TYPE, installing, first_type, resolved>>
    /\ OutsideSerialization

\* The calls of install_serializers that hold a read guard of the RwLock of
\* its FILTERS_FOR_TYPE: `filters_for_type` is a binding of the function body,
\* so a call that found its filters keeps the guard until it returns; a call
\* that found nothing has dropped it (mem::drop) before it asks for the write
\* lock.
read_guards ==
    {t \in Threads : /\ installing[t].at \in {"send_serialized", "connect_serialize", "connect_deserialize"}
                     /\ installing[t].guard = "read"}

\* install_serializers::<TMessageType, TSerializer>(scene, type_name, ..):
\* FILTERS_FOR_TYPE.read() and the lookup under the read lock.  The write lock
\* is never held from one step to the next (install_serializers_write), so the
\* read lock is there to take.
install_serializers(t, message_type, serializer, type_name) ==
    LET key == <<message_type, serializer>>
        known == HashMap_get(install_FILTERS_FOR_TYPE, key, NoFilters)
    IN
    /\ installing[t].at = "idle"
    /\ installs < MaxInstalls
    /\ installs' = installs + 1
    /\ installing' = [installing EXCEPT ![t] =
            [at |-> IF known # NoFilters THEN "send_serialized" ELSE "write",
             guard |-> IF known # NoFilters THEN "read" ELSE "none",
             message_type |-> message_type, serializer |-> serializer, type_name |-> type_name,
             filters |-> known]]
    /\ filters' = IF known # NoFilters
                  THEN filters \cup {[call |-> "install_serializers", key |-> key, filter |-> known]}
                  ELSE filters
    /\ UNCHANGED <<SERIALIZABLE_MESSAGE_TYPE_NAMES, SEND_SERIALIZED, CREATE_ANY_SERIALIZER, TYPED_SERIALIZERS,
                   FILTERS_FOR_TYPE, install_FILTERS_FOR_TYPE, next_filter_handle, first_type, resolved>>
    /\ OutsideSerialization

\* a second lookup that finds nothing, whatever the map holds
never_known(known_filters, key) == NoFilters

\* the second lookup of install_serializers, under the write lock
known_under_write_lock(known_filters, key) == HashMap_get(known_filters, key, NoFilters)

\* install_serializers: `try again with the write lock`, and the creation of
\* the two filters if they are still missing.  FILTERS_FOR_TYPE.write() waits
\* until no call holds a read guard; the write guard is a binding of the else
\* block and is dropped at its end, before SEND_SERIALIZED is locked.
install_serializers_write(t) ==
    LET call == installing[t]
        key == <<call.message_type, call.serializer>>
        known == known_under_write_lock(install_FILTERS_FOR_TYPE, key)
        serialize_filter == for_filter(next_filter_handle)
        deserialize_filter == for_filter(next_filter_handle + 1)
        created == <<serialize_filter, deserialize_filter>>
    IN
    /\ call.at = "write"
    /\ read_guards = {}
    /\ IF known # NoFilters
       THEN /\ installing' = [installing EXCEPT ![t].at = "send_serialized", ![t].filters = known]
            /\ filters' = filters \cup {[call |-> "install_serializers", key |-> key, filter |-> known]}
            /\ UNCHANGED <<install_FILTERS_FOR_TYPE, next_filter_handle>>
       ELSE /\ install_FILTERS_FOR_TYPE' = HashMap_insert(install_FILTERS_FOR_TYPE, key, created)
            /\ next_filter_handle' = next_filter_handle + 2
            /\ installing' = [installing EXCEPT ![t].at = "send_serialized", ![t].filters = created]
            /\ filters' = filters \cup {[call |-> "created", key |-> key, filter |-> created],
                                        [call |-> "install_serializers", key |-> key, filter |-> created]}
    /\ UNCHANGED <<SERIALIZABLE_MESSAGE_TYPE_NAMES, SEND_SERIALIZED, CREATE_ANY_SERIALIZER, TYPED_SERIALIZERS,
                   FILTERS_FOR_TYPE, first_type, resolved, installs>>
    /\ OutsideSerialization

\* install_serializers: the sink for the type name goes to SEND_SERIALIZED,
\* under its write lock (a guard of the inner block, dropped at its end)
install_serializers_send_serialized(t) ==
    LET call == installing[t] IN
    /\ call.at = "send_serialized"
    /\ SEND_SERIALIZED' = HashMap_insert(SEND_SERIALIZED, <<SerializerOk(call.serializer), call.type_name>>,
                                         call.message_type)
    /\ first_type' = note_first_type(first_type, call.type_name, call.message_type)
    /\ installing' = [installing EXCEPT ![t].at = "connect_serialize"]
    /\ UNCHANGED <<SERIALIZABLE_MESSAGE_TYPE_NAMES, CREATE_ANY_SERIALIZER, TYPED_SERIALIZERS, FILTERS_FOR_TYPE,
                   install_FILTERS_FOR_TYPE, next_filter_handle, resolved, filters, installs>>
    /\ OutsideSerialization

\* StreamSource::Filtered(filter) and the stream id of a message type
Filtered(filter) == [kind |-> "filtered", id |-> "filter", handle |-> filter]
SerializedMessageOf(serialized_type) == <<"SerializedMessage", serialized_type>>
StreamId_with_message_type(message_type) == <<"StreamId", message_type>>

\* scene.connect_programs(StreamSource::Filtered(filter), (), stream_id): the
\* rule of the key (source, stream id) is replaced by one that applies the
\* filter at the source
connect_source_filter(rules, filter, stream_id) ==
    LET rule == [source |-> Filtered(filter), target |-> "()", stream_id |-> stream_id]
    IN  {r \in rules : r.source # rule.source} \cup {rule}

\* What an install_serializers call in its connect_programs calls leaves alone.
OutsideSerializationAndScene ==
    /\ UNCHANGED <<SERIALIZABLE_MESSAGE_TYPE_NAMES, SEND_SERIALIZED, CREATE_ANY_SERIALIZER, TYPED_SERIALIZERS,
                   FILTERS_FOR_TYPE, install_FILTERS_FOR_TYPE, next_filter_handle, first_type, resolved,
                   filters, installs>>
    /\ UNCHANGED <<input_core, output_sink, send_pc, next_message, received>>
    /\ UNCHANGED <<rtVars, refVars, dispatchVars, classVars, chainVars, sigVars, registryVars, subscriberVars, idleVars, nameVars, filterVars, converterVars, commandVars, subclassVars, retargetVars, allocatorVars, pipeVars>>

\* install_serializers: scene.connect_programs(Filtered(serialize_filter), (),
\* stream of TMessageType)?; an error of the scene is returned to the caller,
\* and the return drops the read guard if the call held one
install_serializers_connect_serialize(t, connected) ==
    LET call == installing[t] IN
    /\ call.at = "connect_serialize"
    /\ connects' = connects + 1
    /\ IF connected
       THEN /\ connections' = connect_source_filter(connections, call.filters[1],
                                                    StreamId_with_message_type(call.message_type))
            /\ installing' = [installing EXCEPT ![t].at = "connect_deserialize"]
       ELSE /\ UNCHANGED connections
            /\ installing' = [installing EXCEPT ![t] = [at |-> "idle"]]
    /\ OutsideSerializationAndScene

\* install_serializers: scene.connect_programs(Filtered(deserialize_filter), (),
\* stream of SerializedMessage<TSerializer::Ok>)?; then Ok(()), and the return
\* drops the read guard if the call held one
install_serializers_connect_deserialize(t, connected) ==
    LET call == installing[t] IN
    /\ call.at = "connect_deserialize"
    /\ connects' = connects + 1
    /\ connections' =
            IF connected
            THEN connect_source_filter(connections, call.filters[2],
                    StreamId_with_message_type(SerializedMessageOf(SerializerOk(call.serializer))))
            ELSE connections
    /\ installing' = [installing EXCEPT ![t] = [at |-> "idle"]]
    /\ OutsideSerializationAndScene

\* SceneContext::send_serialized::<TSerializedType>(type_name, target): the
\* message type of the sink that is made
send_serialized(serialized_type, type_name) ==
    LET create_sink == HashMap_get(SEND_SERIALIZED, <<serialized_type, type_name>>, NoType) IN
    /\ installs < MaxInstalls
    /\ installs' = installs + 1
    /\ resolved' = IF create_sink # NoType THEN resolved \cup {<<type_name, create_sink>>} ELSE resolved
    /\ UNCHANGED <<SERIALIZABLE_MESSAGE_TYPE_NAMES, SEND_SERIALIZED, CREATE_ANY_SERIALIZER, TYPED_SERIALIZERS,
                   FILTERS_FOR_TYPE, install_FILTERS_FOR_TYPE, next_filter_handle, installing, first_type, filters>>
    /\ OutsideSerialization

NextSerialization ==
    \/ \E s \in Serializers : install_serializer(s)
    \/ \E t \in Threads, m \in MessageTypes, s \in Serializers, n \in TypeNames :
          install_serializable_type(t, m, s, n)
    \/ \E t \in Threads : install_serializable_type_new_serializer(t)
    \/ \E t \in Threads : install_serializable_type_typed_serializers(t)
    \/ \E m \in MessageTypes, s \in Serializers : serializer_filter(m, SerializerOk(s))
    \/ \E m \in MessageTypes, s \in Serializers : serializer_filter(SerializerOk(s), m)
    \/ \E t \in Threads, m \in MessageTypes, s \in Serializers, n \in TypeNames : install_serializers(t, m, s, n)
    \/ \E t \in Threads : install_serializers_write(t)
    \/ \E t \in Threads : install_serializers_send_serialized(t)
    \/ \E t \in Threads, connected \in BOOLEAN : install_serializers_connect_serialize(t, connected)
    \/ \E t \in Threads, connected \in BOOLEAN : install_serializers_connect_deserialize(t, connected)
    \/ \E s \in Serializers, n \in TypeNames : send_serialized(SerializerOk(s), n)

\* std::any::type_name::<TMessageType>(), the name that a caller gives to a
\* type when every type is named after itself
type_name(message_type) == IF message_type = "TestMessage" THEN "test::message" ELSE "test::other"

\* the installation of the serializers and the filters by callers that name
\* every type after itself
NextFilterInstall ==
    \/ \E s \in Serializers : install_serializer(s)
    \/ \E t \in Threads, m \in MessageTypes, s \in Serializers :
          install_serializable_type(t, m, s, type_name(m))
    \/ \E t \in Threads : install_serializable_type_new_serializer(t)
    \/ \E t \in Threads : install_serializable_type_typed_serializers(t)
    \/ \E m \in MessageTypes, s \in Serializers : serializer_filter(m, SerializerOk(s))
    \/ \E m \in MessageTypes, s \in Serializers : serializer_filter(SerializerOk(s), m)
    \/ \E t \in Threads, m \in MessageTypes, s \in Serializers : install_serializers(t, m, s, type_name(m))
    \/ \E t \in Threads : install_serializers_write(t)
    \/ \E t \in Threads : install_serializers_send_serialized(t)
    \/ \E t \in Threads, connected \in BOOLEAN : install_serializers_connect_serialize(t, connected)
    \/ \E t \in Threads, connected \in BOOLEAN : install_serializers_connect_deserialize(t, connected)

\* ---------------------------------------------- part 13: serializer filters
\*
\* create_serializer_filter and deserializer_filter (serialization.rs) map
\* every message of their input stream to a stream of no or one message and
\* flatten the result.  The filters here are the ones of TestMessage; a step is
\* one message that the input stream of a filter yields.

OutsideFilters == UNCHANGED <<rtVars, refVars, dispatchVars, classVars, chainVars, sigVars, registryVars, sceneVars, subscriberVars, idleVars, nameVars, serializationVars, converterVars, commandVars, subclassVars, retargetVars, allocatorVars, pipeVars>>

MaxFilterInput == 3

\* the values of TestMessage; the last one is a value that its Serialize
\* implementation refuses
TestMessages == {"Test", "Again", "Unserializable"}

\* the serialized values: what the serializer makes of a TestMessage, what it
\* makes of a message of another type, and a value no type decodes
SerializedValues == {[json |-> "Test"], [json |-> "Again"], [json |-> "Other"], [json |-> "null"]}

\* TypeId::of::<TMessageType>() of both filters
type_id == "TestMessage"

TypeIds == {"TestMessage", "OtherMessage"}

SerializedMessage(value, message_type) == [value |-> value, type |-> message_type]

\* Option and Result as the sequence of what they hold: stream::iter of it
\* yields those items
Option_Some(value) == <<value>>

Option_None == <<>>

FiltersInit ==
    /\ serializer_input = <<>>
    /\ serializer_output = <<>>
    /\ deserializer_input = <<>>
    /\ deserializer_output = <<>>

\* message.serialize(serializer).ok()
serialize(message) ==
    IF message = "Unserializable" THEN Option_None ELSE Option_Some([json |-> message])

\* TMessageType::deserialize(message_value).ok()
deserialize(message_value) ==
    IF message_value.json \in {"Test", "Again"} THEN Option_Some(message_value.json) ELSE Option_None

\* a closure that passes a placeholder on when a message does not serialize
serialized_or_null(message) ==
    IF serialize(message) = Option_None
    THEN Option_Some(SerializedMessage([json |-> "null"], type_id))
    ELSE Option_Some(SerializedMessage(serialize(message)[1], type_id))

\* the closure that create_serializer_filter maps over its input
serialized(message) ==
    IF serialize(message) = Option_None
    THEN Option_None
    ELSE Option_Some(SerializedMessage(serialize(message)[1], type_id))

\* a closure that never looks at the type of the message
deserialized_whatever_type(message) ==
    deserialize(message.value)

\* the closure that deserializer_filter maps over its input
deserialized(message) ==
    IF message.type # type_id
    THEN Option_None
    ELSE deserialize(message.value)

\* the serializer filter reads a message: .map(..).flatten()
serializer_next(message) ==
    /\ Len(serializer_input) < MaxFilterInput
    /\ serializer_input' = Append(serializer_input, message)
    /\ serializer_output' = serializer_output \o serialized(message)
    /\ UNCHANGED <<deserializer_input, deserializer_output>>
    /\ OutsideFilters

\* the deserializer filter reads a message: .map(..).flatten()
deserializer_next(message) ==
    /\ Len(deserializer_input) < MaxFilterInput
    /\ deserializer_input' = Append(deserializer_input, message)
    /\ deserializer_output' = deserializer_output \o deserialized(message)
    /\ UNCHANGED <<serializer_input, serializer_output>>
    /\ OutsideFilters

NextFilters ==
    \/ \E message \in TestMessages : serializer_next(message)
    \/ \E value \in SerializedValues, message_type \in TypeIds :
            deserializer_next(SerializedMessage(value, message_type))

\* ------------------------------------------- part 14: message converters
\*
\* TalkMessageType::from_message (message_converters.rs) reads a native value
\* out of a message.  A TalkValue is its kind and what it holds; a Float holds
\* its value in tenths, and the integers stay inside an i32, so that `as` only
\* has to truncate.

OutsideConverters == UNCHANGED <<rtVars, refVars, dispatchVars, classVars, chainVars, sigVars, registryVars, sceneVars, subscriberVars, idleVars, nameVars, serializationVars, filterVars, commandVars, subclassVars, retargetVars, allocatorVars, pipeVars>>

NativeTypes ==
    {"()", "TalkReference", "TalkValue", "bool", "i32", "i64", "f32", "f64", "TalkNumber", "String",
     "Arc<String>", "char", "TalkError"}

ArgumentValues ==
    {[kind |-> "Nil", val |-> 0], [kind |-> "Reference", val |-> 1], [kind |-> "Bool", val |-> 1],
     [kind |-> "Int", val |-> -7], [kind |-> "Float", val |-> -25], [kind |-> "String", val |-> 2],
     [kind |-> "Character", val |-> 97], [kind |-> "Symbol", val |-> 3], [kind |-> "Array", val |-> 0],
     [kind |-> "Array", val |-> 2], [kind |-> "Error", val |-> 4]}

\* the handles of the references that a value holds: val is the handle of a
\* Reference; an Array is written by the one reference that is its element,
\* 0 for the empty array
references_held(value) ==
    CASE value.kind = "Reference" -> <<value.val>>
      [] value.kind = "Array" /\ value.val # 0 -> <<value.val>>
      [] OTHER -> <<>>

\* release_in_context of an iterable of values: every item is released, and
\* the release of a value releases the references it holds
RECURSIVE release_values(_)
release_values(args) ==
    IF args = <<>> THEN <<>> ELSE references_held(Head(args)) \o release_values(Tail(args))

\* TalkValue::take: the value moves out and Nil is left in its place
TalkValue_take(args, index) == [args EXCEPT ![index] = [kind |-> "Nil", val |-> 0]]

MessageSignatures == {"value", "size", "value:", "at:", "at:put:"}

TalkMessage_Unary(signature) == [signature |-> signature, args |-> <<>>]

TalkMessage_WithArguments(signature, args) == [signature |-> signature, args |-> args]

\* the messages that the converters are given: unary ones, and ones with one
\* argument or two
ConverterMessages ==
    {TalkMessage_Unary(signature) : signature \in {"value", "size"}}
        \cup {TalkMessage_WithArguments(signature, <<v>>) : signature \in {"value:", "at:"}, v \in ArgumentValues}
        \cup {TalkMessage_WithArguments("at:put:", <<v, [kind |-> "Int", val |-> 1]>>) : v \in ArgumentValues}

Result_Ok(value) == [ok |-> TRUE, value |-> value, error |-> "None"]

Result_Err(error) == [ok |-> FALSE, value |-> [kind |-> "Nil", val |-> 0], error |-> error]

TalkError_MessageNotSupported(signature) == "MessageNotSupported"

ConvertersInit ==
    from_message_call = [native_type |-> "None", message |-> TalkMessage_Unary("value"), result |-> Result_Err("None"),
                         released |-> <<>>]

\* TalkMessageType::supports_message of every native type: VALUE_MSG for the
\* unit type, VALUE_COLON_MSG for the others
supports_message(native_type, id) ==
    IF native_type = "()" THEN id = "value" ELSE id = "value:"

\* read_argument
read_argument(msg) ==
    IF msg.args # <<>>
    THEN IF Len(msg.args) = 1
         THEN Result_Ok(msg.args[1])
         ELSE Result_Err(TalkError_MessageNotSupported(msg.signature))
    ELSE Result_Err(TalkError_MessageNotSupported(msg.signature))

\* `val as i32` and `val as i64`: a float loses its fraction
as_integer(value) ==
    IF value.kind = "Float"
    THEN IF value.val >= 0 THEN value.val \div 10 ELSE -((-value.val) \div 10)
    ELSE value.val

\* `val as f32` and `val as f64`, in tenths
as_float(value) ==
    IF value.kind = "Int" THEN value.val * 10 ELSE value.val

\* a match that takes the argument whatever it is
match_anything(native_type, value) == Result_Ok(value.val)

\* the match of from_message on the argument that read_argument returned
match_argument(native_type, value) ==
    CASE native_type = "bool" ->
            IF value.kind = "Bool" THEN Result_Ok(value.val) ELSE Result_Err("NotABoolean")
      [] native_type \in {"i32", "i64"} ->
            IF value.kind \in {"Int", "Float"} THEN Result_Ok(as_integer(value)) ELSE Result_Err("NotAnInteger")
      [] native_type \in {"f32", "f64"} ->
            IF value.kind \in {"Int", "Float"} THEN Result_Ok(as_float(value)) ELSE Result_Err("NotAFloat")
      [] native_type = "TalkNumber" ->
            IF value.kind \in {"Int", "Float"} THEN Result_Ok(value) ELSE Result_Err("NotANumber")
      [] native_type \in {"String", "Arc<String>"} ->
            IF value.kind = "String" THEN Result_Ok(value.val) ELSE Result_Err("NotAString")
      [] native_type = "char" ->
            IF value.kind = "Character" THEN Result_Ok(value.val) ELSE Result_Err("NotACharacter")
      [] native_type = "TalkError" ->
            IF value.kind = "Error" THEN Result_Ok(value.val) ELSE Result_Err("NotAnError")

\* TalkMessageType::from_message of every native type
from_message(native_type, message) ==
    CASE native_type = "()" ->
            IF message.args = <<>> THEN Result_Ok(0) ELSE Result_Err(TalkError_MessageNotSupported(message.signature))
      [] native_type = "TalkReference" ->
            IF message.args # <<>>
            THEN IF Len(message.args) = 1
                 THEN IF message.args[1].kind = "Reference"
                      THEN Result_Ok(message.args[1].val)
                      ELSE Result_Err("NotAReference")
                 ELSE Result_Err(TalkError_MessageNotSupported(message.signature))
            ELSE Result_Err(TalkError_MessageNotSupported(message.signature))
      [] native_type = "TalkValue" ->
            IF message.args # <<>>
            THEN IF Len(message.args) = 1
                 THEN Result_Ok(message.args[1])
                 ELSE Result_Err(TalkError_MessageNotSupported(message.signature))
            ELSE Result_Err(TalkError_MessageNotSupported(message.signature))
      [] OTHER ->
            IF read_argument(message).ok
            THEN match_argument(native_type, read_argument(message).value)
            ELSE read_argument(message)

\* the handles that a call of from_message releases in the context, in the
\* order of the releases: TalkReference and TalkValue leak the message and
\* release the arguments themselves, the other types drop the owned message
from_message_releases(native_type, message) ==
    CASE native_type = "TalkReference" ->
            IF message.args # <<>>
            THEN IF Len(message.args) = 1
                 THEN IF message.args[1].kind = "Reference"
                      THEN <<>>
                      ELSE release_values(TalkValue_take(message.args, 1))
                 ELSE release_values(message.args)
            ELSE <<>>
      [] native_type = "TalkValue" ->
            IF message.args # <<>>
            THEN IF Len(message.args) = 1
                 THEN <<>>
                 ELSE release_values(message.args)
            ELSE <<>>
      [] OTHER -> release_values(message.args)

\* some code calls T::from_message(message, context)
call_from_message(native_type, message) ==
    /\ from_message_call' = [native_type |-> native_type, message |-> message,
                             result |-> from_message(native_type, message),
                             released |-> from_message_releases(native_type, message)]
    /\ OutsideConverters

NextConverters ==
    \E native_type \in NativeTypes, message \in ConverterMessages : call_from_message(native_type, message)

\* ------------------------------------------------ part 15: the command stream
\*
\* command_stream.rs and command_program.rs: parse_command_stream turns the
\* bytes of a connection into commands, CommandProcessor answers every command
\* and display_command_responses writes the responses and the prompts.  The
\* three are tasks joined by streams; a step of a task is what it does from
\* one await to the next: a yield of the display returns to the reader of the
\* connection, a send of the command processor waits for room in its sink.
\* command_parse, the parser and the socket are not part of the sources: a line
\* is a command or it is not, the end of the input is a parse error, and
\* parser.finish() gives a command or an error.

OutsideCommands == UNCHANGED <<rtVars, refVars, dispatchVars, classVars, chainVars, sigVars, registryVars, sceneVars, subscriberVars, idleVars, nameVars, serializationVars, filterVars, converterVars, subclassVars, retargetVars, allocatorVars, pipeVars>>

MaxResponses == 3

MaxLines == 2

\* enum CommandResponse: a response of every variant; the BackgroundStream is
\* a stream of the one event [1]
CommandResponses ==
    {[kind |-> "Message", text |-> "two\nlines"], [kind |-> "Json", text |-> "[1]"],
     [kind |-> "BackgroundStream", text |-> "[1]"],
     [kind |-> "Error", text |-> "Not implemented yet"]}

NoResponse == [kind |-> "None", text |-> ""]

\* what polling the response input gives
Poll_Some(response) == [poll |-> "Some", response |-> response]

Poll_None == [poll |-> "None", response |-> NoResponse]

Poll_Pending == [poll |-> "Pending", response |-> NoResponse]

\* the lines that are written to a connection; the last one is no command
CommandLines == {"error::message [ \"json\", \"array\" ]", "list", "]["}

CommandsInit ==
    /\ display_pc = "start"
    /\ display_output = <<>>
    /\ display_polls = <<>>
    /\ displaying = NoResponse
    /\ command_lines = <<>>
    /\ write_shutdown = FALSE
    /\ parser = [state |-> "running", pos |-> 0, yielded |-> <<>>]
    /\ commands = <<>>
    /\ processor = [state |-> "running", read |-> 0, sent |-> 0]
    /\ responses = <<>>

\* display_response: the frame of a response
display_response(response) ==
    CASE response.kind = "Message" /\ response.text = "two\nlines" -> "  two\n  lines\n"
      [] response.kind = "Json" /\ response.text = "[1]" -> "[\n  1\n]\n"
      [] response.kind = "Error" /\ response.text = "Not implemented yet" -> "!!! Not implemented yet\n"
      [] response.kind = "BackgroundStream" -> "todo!()"

\* display_response gets to its todo!() and the task panics
display_panics(response) == display_response(response) = "todo!()"

\* the frames that display_response yields
display_frames(response) ==
    IF display_panics(response) THEN <<>> ELSE <<display_response(response)>>

\* display_command_responses: `we always start by showing a prompt`
display_start ==
    /\ display_pc = "start"
    /\ display_output' = <<"\n\n> ">>
    /\ display_pc' = "await"
    /\ UNCHANGED <<display_polls, displaying>>

\* display_command_responses: what input.next().await gives, at the top of
\* the main loop: a response is taken and "\n" is yielded, the end of the
\* input breaks out of the loop to the sign-out
display_next(next_response) ==
    /\ display_pc = "await"
    /\ next_response.poll # "Pending"
    /\ IF next_response.poll = "Some"
       THEN /\ display_output' = display_output \o <<"\n">>
            /\ displaying' = next_response.response
            /\ display_pc' = "response"
       ELSE /\ display_output' = display_output \o <<"\n\n.\n">>
            /\ displaying' = NoResponse
            /\ display_pc' = "done"
    /\ UNCHANGED display_polls

\* display_command_responses: display_response(&yield_value, response).await,
\* when the reader comes back for the frame after the "\n"
display_response_await ==
    /\ display_pc = "response"
    /\ display_output' = display_output \o display_frames(displaying)
    /\ display_pc' = IF display_panics(displaying) THEN "panicked" ELSE "poll"
    /\ displaying' = NoResponse
    /\ UNCHANGED display_polls

\* what is yielded after the poll of the inner loop: for a response that is
\* there at once, for an input that has nothing yet and for the end of the
\* input
frames_after_poll(next_response) ==
    CASE next_response.poll = "Some" -> <<"\n">>
      [] next_response.poll = "Pending" -> <<"\n> ">>
      [] next_response.poll = "None" -> <<"\n\n.\n">>

\* display_command_responses: the poll_fn of the inner loop and the yield that
\* follows it
display_poll(next_response) ==
    /\ display_pc = "poll"
    /\ display_polls' = Append(display_polls, [poll |-> next_response.poll, at |-> Len(display_output)])
    /\ display_output' = display_output \o frames_after_poll(next_response)
    /\ displaying' = next_response.response
    /\ display_pc' = CASE next_response.poll = "Some" -> "response"
                       [] next_response.poll = "Pending" -> "await"
                       [] next_response.poll = "None" -> "done"

UnchangedCommands == UNCHANGED <<command_lines, write_shutdown, parser, commands, processor, responses>>

Displayed == Cardinality({i \in DOMAIN display_output : display_output[i] = "\n"})

\* the display task starts
start_display ==
    /\ display_start
    /\ UnchangedCommands
    /\ OutsideCommands

\* the responses of some stream reach the display: a response or the end,
\* when the display waits for its input
stream_next(next_response) ==
    /\ next_response.poll = "Some" => Displayed < MaxResponses
    /\ display_next(next_response)
    /\ UnchangedCommands
    /\ OutsideCommands

\* the frame of the response that was taken
stream_response ==
    /\ display_response_await
    /\ UnchangedCommands
    /\ OutsideCommands

\* a response, the end or nothing yet, when the display polls its input
stream_poll(next_response) ==
    /\ next_response.poll = "Some" => Displayed < MaxResponses
    /\ display_poll(next_response)
    /\ UnchangedCommands
    /\ OutsideCommands

NextDisplay ==
    \/ start_display
    \/ \E r \in CommandResponses : stream_next(Poll_Some(r))
    \/ stream_next(Poll_None)
    \/ stream_response
    \/ \E r \in CommandResponses : stream_poll(Poll_Some(r))
    \/ stream_poll(Poll_None)
    \/ stream_poll(Poll_Pending)

\* the responses may be background streams as well
\* command_parse: Ok(()) for a line that is a command
is_command(line) == line # "]["

\* the test program writes a line to its side of the connection
write_command(line) ==
    /\ ~write_shutdown
    /\ Len(command_lines) < MaxLines
    /\ command_lines' = Append(command_lines, line)
    /\ UNCHANGED <<display_pc, display_output, display_polls, displaying, write_shutdown, parser, commands,
                   processor, responses>>
    /\ OutsideCommands

\* write_command.shutdown()
shutdown ==
    /\ ~write_shutdown
    /\ write_shutdown' = TRUE
    /\ UNCHANGED <<display_pc, display_output, display_polls, displaying, command_lines, parser, commands,
                   processor, responses>>
    /\ OutsideCommands

\* parse_command_stream: one turn of its loop.  The line that command_parse
\* accepts is finished, to Ok(command) or to Err(()) as parser.finish() says,
\* and the item is yielded once the command processor takes it; a parse error,
\* and the end of the input is one, aborts the parser and breaks out of the
\* loop, which ends the stream (parser.finish() is not called then)
parse_command_stream(input, finish) ==
    /\ parser.state = "running"
    /\ IF parser.pos < Len(input)
       THEN LET line == input[parser.pos + 1] IN
            IF is_command(line)
            THEN /\ commands = <<>>
                 /\ commands' = <<IF finish THEN [result |-> "Ok", command |-> line]
                                            ELSE [result |-> "Err", command |-> "()"]>>
                 /\ parser' = [parser EXCEPT !.pos = @ + 1, !.yielded = Append(@, line)]
            ELSE /\ finish
                 /\ parser' = [parser EXCEPT !.pos = @ + 1, !.state = "done"]
                 /\ UNCHANGED commands
       ELSE /\ finish
            /\ write_shutdown
            /\ parser' = [parser EXCEPT !.state = "done"]
            /\ UNCHANGED commands
    /\ UNCHANGED <<display_pc, display_output, display_polls, displaying, command_lines, write_shutdown,
                   processor, responses>>
    /\ OutsideCommands

\* CommandProcessor::run: input.next().await, at the top of its loop: the next
\* item of the input, a command or an error alike, or the end of the input
CommandProcessor_run ==
    /\ processor.state = "running"
    /\ IF commands # <<>>
       THEN /\ commands' = Tail(commands)
            /\ processor' = [processor EXCEPT !.read = @ + 1, !.state = "sending"]
       ELSE /\ parser.state = "done"
            /\ processor' = [processor EXCEPT !.state = "finished"]
            /\ UNCHANGED commands
    /\ UNCHANGED <<display_pc, display_output, display_polls, displaying, command_lines, write_shutdown,
                   parser, responses>>
    /\ OutsideCommands

\* CommandProcessor::run: responses.send(CommandResponse::Error(..)).await,
\* which waits until the sink has room; the send fails when the display is
\* gone, and the loop is left
CommandProcessor_send ==
    /\ processor.state = "sending"
    /\ IF display_pc = "dropped"
       THEN /\ processor' = [processor EXCEPT !.state = "stopped"]
            /\ UNCHANGED responses
       ELSE /\ responses = <<>>
            /\ responses' = <<[kind |-> "Error", text |-> "Not implemented yet"]>>
            /\ processor' = [processor EXCEPT !.sent = @ + 1, !.state = "running"]
    /\ UNCHANGED <<display_pc, display_output, display_polls, displaying, command_lines, write_shutdown,
                   parser, commands>>
    /\ OutsideCommands

\* what the display finds in the stream of the responses
responses_poll ==
    IF responses # <<>> THEN Poll_Some(Head(responses))
    ELSE IF processor.state \in {"stopped", "finished"} THEN Poll_None
    ELSE Poll_Pending

\* the display waits for the responses of the command processor
connection_next ==
    /\ display_next(responses_poll)
    /\ responses' = IF responses # <<>> THEN Tail(responses) ELSE responses
    /\ UNCHANGED <<command_lines, write_shutdown, parser, commands, processor>>
    /\ OutsideCommands

\* the reader of the connection takes the frame of the response
connection_response ==
    /\ display_response_await
    /\ UnchangedCommands
    /\ OutsideCommands

\* the display polls the responses of the command processor
connection_poll ==
    /\ display_poll(responses_poll)
    /\ responses' = IF responses # <<>> THEN Tail(responses) ELSE responses
    /\ UNCHANGED <<command_lines, write_shutdown, parser, commands, processor>>
    /\ OutsideCommands

\* the reader of the connection goes away, and the display with it, wherever
\* the display waits: for its input or for the reader to take a frame
connection_dropped ==
    /\ display_pc \in {"await", "response", "poll"}
    /\ display_pc' = "dropped"
    /\ displaying' = NoResponse
    /\ responses' = <<>>
    /\ UNCHANGED <<display_output, display_polls, command_lines, write_shutdown, parser, commands, processor>>
    /\ OutsideCommands

NextCommands ==
    \/ \E line \in CommandLines : write_command(line)
    \/ shutdown
    \/ \E finish \in BOOLEAN : parse_command_stream(command_lines, finish)
    \/ CommandProcessor_run
    \/ CommandProcessor_send
    \/ start_display
    \/ connection_next
    \/ connection_response
    \/ connection_poll
    \/ connection_dropped

\* ------------------------------------------- part 16: `subclass`, deferred
\*
\* script_class.rs and dispatch_table.rs: send_message_and_release wraps the
\* target in a TalkOwned, sends the message and drops the wrapper when the
\* continuation has been returned.  `subclass` answers a Soon continuation
\* that holds the parent reference without a count of its own and retains it
\* only when the runtime runs its body.

SubclassInit == soon_parent = NoSuperclass

NextSubclass ==
    \/ script_class_new
    \/ \E t \in Threads, definition \in ClassDefinitions : create_new(t, definition)
    \/ \E t \in Creators : create_lock_definitions(t)
    \/ \E t \in Creators : create_store_definition(t)
    \/ \E t \in Creators : create_lock_callbacks(t)
    \/ \E t \in Creators : create_store_callbacks(t)
    \/ \E h \in Handles : script_class_new_store(h)
    \/ \E b \in CellBlocks : allocate_cell_block(b)
    \/ \E r \in CountedReferences : clone_reference(r)
    \/ Between /\ \E value \in OwnedValues : release_in_context(value)
    \/ \E parent \in Handles : send_message_and_release(parent)
    \/ subclass_soon
    \/ \E h \in Handles : subclass_soon_store(h)

\* ------------------------------------------- part 17: retargets of a sink
\*
\* stream_id.rs: the three functions that change the target of an output sink
\* core.  Each locks the sink's mutex, sets the target, takes the waker in
\* when_target_changed and gives it to its caller.  Threads call them on one
\* sink; a sender that finds the sink Disconnected leaves its waker in the
\* core (the sink's send is not part of the sources).

OutsideRetargets == UNCHANGED <<rtVars, refVars, dispatchVars, classVars, chainVars, sigVars, registryVars, sceneVars, subscriberVars, idleVars, nameVars, serializationVars, filterVars, converterVars, commandVars, subclassVars, allocatorVars, pipeVars>>

MaxRetargets == 3

MaxParks == 2

Discard == [kind |-> "Discard", input |-> "none"]

\* the calls: connect_output_to_input(output_sink, input_stream, close_when_dropped)
\* with the input stream of one consumer, connect_output_to_discard(output_sink),
\* disconnect_output(output_sink)
RetargetCalls ==
    {[fn |-> "connect_output_to_input", input_stream |-> "c1", close_when_dropped |-> b] :
            b \in BOOLEAN}
        \cup {[fn |-> "connect_output_to_discard", input_stream |-> "none", close_when_dropped |-> FALSE],
              [fn |-> "disconnect_output", input_stream |-> "none", close_when_dropped |-> FALSE]}

NoRetarget == [fn |-> "none", input_stream |-> "none", close_when_dropped |-> FALSE]

RetargetInit ==
    /\ sink_core = OutputSinkCore(Disconnected, FALSE)
    /\ sink_lock = NoThread
    /\ retarget_pc = [t \in Threads |-> "idle"]
    /\ retarget_call = [t \in Threads |-> NoRetarget]
    /\ retargets = <<>>
    /\ parks = 0

\* the sender polls its send on a Disconnected sink: its waker is stored
park ==
    /\ sink_lock = NoThread
    /\ parks < MaxParks
    /\ sink_core.target = Disconnected
    /\ ~sink_core.when_target_changed
    /\ sink_core' = OutputSinkCore(sink_core.target, TRUE)
    /\ parks' = parks + 1
    /\ UNCHANGED <<sink_lock, retarget_pc, retarget_call, retargets>>
    /\ OutsideRetargets

\* output_sink.lock().unwrap()
retarget_lock(t, call) ==
    /\ retarget_pc[t] = "idle"
    /\ Len(retargets) + Cardinality({u \in Threads : retarget_pc[u] # "idle"}) < MaxRetargets
    /\ sink_lock = NoThread
    /\ sink_lock' = t
    /\ retarget_pc' = [retarget_pc EXCEPT ![t] = "locked"]
    /\ retarget_call' = [retarget_call EXCEPT ![t] = call]
    /\ UNCHANGED <<sink_core, retargets, parks>>
    /\ OutsideRetargets

\* the target that a call gives the sink
new_target(sink, call) ==
    CASE call.fn = "connect_output_to_input" ->
            connect_output_to_input(sink, call.input_stream, call.close_when_dropped).target
      [] call.fn = "connect_output_to_discard" -> Discard
      [] call.fn = "disconnect_output" -> Disconnected

\* output_sink.target = ...
retarget_set_target(t) ==
    /\ retarget_pc[t] = "locked"
    /\ sink_core' = OutputSinkCore(new_target(sink_core, retarget_call[t]), sink_core.when_target_changed)
    /\ retarget_pc' = [retarget_pc EXCEPT ![t] = "target_set"]
    /\ UNCHANGED <<sink_lock, retarget_call, retargets, parks>>
    /\ OutsideRetargets

\* a take that leaves the waker where it is
leave_waker(sink) == sink

\* output_sink.when_target_changed.take(): what is left in the core
take_waker(sink) == OutputSinkCore(sink.target, FALSE)

\* the waker is taken, the guard is dropped and Ok(waker) is returned
retarget_take(t) ==
    /\ retarget_pc[t] = "target_set"
    /\ sink_core' = take_waker(sink_core)
    /\ sink_lock' = NoThread
    /\ retargets' = Append(retargets, [call |-> retarget_call[t], thread |-> t,
                                       target |-> sink_core.target,
                                       waker |-> sink_core.when_target_changed])
    /\ retarget_pc' = [retarget_pc EXCEPT ![t] = "idle"]
    /\ retarget_call' = [retarget_call EXCEPT ![t] = NoRetarget]
    /\ UNCHANGED parks
    /\ OutsideRetargets

NextRetargets ==
    \/ park
    \/ \E t \in Threads, call \in RetargetCalls : retarget_lock(t, call)
    \/ \E t \in Threads : retarget_set_target(t)
    \/ \E t \in Threads : retarget_take(t)

\* ------------------------------------------- part 18: the allocator's mutex
\*
\* class.rs: the not-supported action of an instance dispatch table and the
\* conversion function of a data reader lock the class's allocator, retrieve
\* the data of a handle and hand it to code of the class definition
\* (send_instance_message) or of the host (the read function).  That code may
\* itself use the allocator of the class or add a data reader.  One thread;
\* a std Mutex that its holder locks again deadlocks or panics, and one whose
\* holder panicked is poisoned, so that lock().unwrap() panics from then on.
\* The class, its allocator and the poison of that allocator's mutex are
\* those of part 4.

OutsideAllocator ==
    /\ UNCHANGED <<class_callbacks, allocator, delivered>>
    /\ UNCHANGED <<rtVars, refVars, dispatchVars, chainVars, sigVars, registryVars, sceneVars, subscriberVars, idleVars, nameVars, serializationVars, filterVars, converterVars, commandVars, subclassVars, retargetVars, pipeVars>>

MaxUserCalls == 3

TargetTypes == {"String", "i32"}

NoUserCode == [fn |-> "none", handle |-> 0]

AllocatorInit ==
    /\ allocator_lock = FALSE
    /\ readers_lock = FALSE
    /\ CLASS_DATA_READERS = {}
    /\ user_code = NoUserCode
    /\ user_stuck = "no"
    /\ user_log = <<>>
    /\ readers_poisoned = FALSE

\* talk_add_class_data_reader(read_fn), called by the host: the conversion
\* function is added under the lock of CLASS_DATA_READERS, whose
\* lock().unwrap() panics when the mutex is poisoned
talk_add_class_data_reader(target_type) ==
    /\ user_code = NoUserCode
    /\ Len(user_log) < MaxUserCalls
    /\ IF readers_poisoned
       THEN /\ user_log' = Append(user_log, "panic")
            /\ UNCHANGED CLASS_DATA_READERS
       ELSE /\ CLASS_DATA_READERS' = CLASS_DATA_READERS \cup {target_type}
            /\ user_log' = Append(user_log, "talk_add_class_data_reader")
    /\ UNCHANGED <<allocator_lock, readers_lock, user_code, user_stuck, readers_poisoned, allocator_poisoned>>
    /\ OutsideAllocator

\* the not-supported action of callback_dispatch_table: allocator.lock()
\* .unwrap(), which panics on a poisoned mutex; allocator.retrieve(
\* data_handle), which panics under the guard for a handle that was released
\* and so poisons the mutex; then send_instance_message with the data, the
\* guard still alive
send_to_instance(handle) ==
    /\ class_callbacks.created
    /\ user_code = NoUserCode
    /\ Len(user_log) < MaxUserCalls
    /\ IF allocator_poisoned \/ panics_in_retrieve(handle)
       THEN /\ allocator_poisoned' = TRUE
            /\ user_log' = Append(user_log, "panic")
            /\ UNCHANGED <<allocator_lock, user_code>>
       ELSE /\ allocator_lock' = TRUE
            /\ user_code' = [fn |-> "send_instance_message", handle |-> handle]
            /\ user_log' = Append(user_log, "send_instance_message")
            /\ UNCHANGED allocator_poisoned
    /\ UNCHANGED <<readers_lock, CLASS_DATA_READERS, user_stuck, readers_poisoned>>
    /\ OutsideAllocator

\* the closure of callback_read_data: CLASS_DATA_READERS.lock().unwrap(), then
\* the reader of the target type, which is the conversion function of
\* talk_add_class_data_reader: allocator.lock().unwrap(), retrieve,
\* read_fn(data).  A panic of the conversion function unwinds through the
\* guard of CLASS_DATA_READERS and poisons that mutex; a panic in retrieve
\* poisons the allocator's mutex as well.
callback_read_data(target_type, handle) ==
    /\ class_callbacks.created
    /\ user_code = NoUserCode
    /\ Len(user_log) < MaxUserCalls
    /\ IF readers_poisoned
       THEN /\ user_log' = Append(user_log, "panic")
            /\ UNCHANGED <<readers_lock, allocator_lock, user_code, readers_poisoned, allocator_poisoned>>
       ELSE IF target_type \notin CLASS_DATA_READERS
       THEN /\ user_log' = Append(user_log, "None")
            /\ UNCHANGED <<readers_lock, allocator_lock, user_code, readers_poisoned, allocator_poisoned>>
       ELSE IF allocator_poisoned \/ panics_in_retrieve(handle)
       THEN /\ readers_poisoned' = TRUE
            /\ allocator_poisoned' = TRUE
            /\ user_log' = Append(user_log, "panic")
            /\ UNCHANGED <<readers_lock, allocator_lock, user_code>>
       ELSE /\ readers_lock' = TRUE
            /\ allocator_lock' = TRUE
            /\ user_code' = [fn |-> "read_fn", handle |-> handle]
            /\ user_log' = Append(user_log, "read_fn")
            /\ UNCHANGED <<readers_poisoned, allocator_poisoned>>
    /\ UNCHANGED <<CLASS_DATA_READERS, user_stuck>>
    /\ OutsideAllocator

\* the code that was called uses the allocator of the class: add_reference,
\* remove_reference or retrieve lock its mutex
user_locks_allocator ==
    /\ user_code # NoUserCode /\ user_stuck = "no"
    /\ Len(user_log) < MaxUserCalls
    /\ IF allocator_lock
       THEN \E how \in {"deadlock", "panic"} : user_stuck' = how
       ELSE UNCHANGED user_stuck
    /\ user_log' = Append(user_log, "allocator.lock")
    /\ UNCHANGED <<allocator_lock, readers_lock, CLASS_DATA_READERS, user_code, readers_poisoned, allocator_poisoned>>
    /\ OutsideAllocator

\* the code that was called adds a data reader: the mutex of
\* CLASS_DATA_READERS is held by its caller or free (it is not poisoned: the
\* panics that poison it leave the allocator's mutex poisoned too, and then
\* no code is called)
user_adds_data_reader(target_type) ==
    /\ user_code # NoUserCode /\ user_stuck = "no"
    /\ Len(user_log) < MaxUserCalls
    /\ IF readers_lock
       THEN /\ \E how \in {"deadlock", "panic"} : user_stuck' = how
            /\ UNCHANGED CLASS_DATA_READERS
       ELSE /\ CLASS_DATA_READERS' = CLASS_DATA_READERS \cup {target_type}
            /\ UNCHANGED user_stuck
    /\ user_log' = Append(user_log, "talk_add_class_data_reader")
    /\ UNCHANGED <<allocator_lock, readers_lock, user_code, readers_poisoned, allocator_poisoned>>
    /\ OutsideAllocator

\* the code that was called returns and the guards are dropped
user_returns ==
    /\ user_code # NoUserCode /\ user_stuck = "no"
    /\ user_code' = NoUserCode
    /\ allocator_lock' = FALSE
    /\ readers_lock' = FALSE
    /\ UNCHANGED <<CLASS_DATA_READERS, user_stuck, user_log, readers_poisoned, allocator_poisoned>>
    /\ OutsideAllocator

NextAllocator ==
    \/ \E class_id \in ClassIds : callback_create_in_context(class_id, EmptyTable, EmptyTable)
    \/ \E handle \in Handles, data \in {"data", "released"} :
          user_code = NoUserCode /\ allocator_store(handle, data)
    \/ \E target_type \in TargetTypes : talk_add_class_data_reader(target_type)
    \/ \E handle \in Handles : send_to_instance(handle)
    \/ \E target_type \in TargetTypes, handle \in Handles : callback_read_data(target_type, handle)
    \/ user_locks_allocator
    \/ \E target_type \in TargetTypes : user_adds_data_reader(target_type)
    \/ user_returns

\* ------------------------------------------- part 19: talk_pipe_stream
\*
\* stream.rs: talk_pipe_stream hands back a receiver and a continuation.  The
\* continuation reads the source stream; for every item it runs the
\* continuation that process_value answers, converts the value and sends the
\* result of the conversion to the receiver through a channel.  An item of
\* the source is its number, whether its continuation ends in an error value
\* and whether its value converts to the item type.

OutsidePipe == UNCHANGED <<rtVars, refVars, dispatchVars, classVars, chainVars, sigVars, registryVars, sceneVars, subscriberVars, idleVars, nameVars, serializationVars, filterVars, converterVars, commandVars, subclassVars, retargetVars, allocatorVars>>

MaxSource == 3

\* mpsc::channel(1)
channel_buffer == 1

SourceItems(n) ==
    {[n |-> n, continuation |-> "ok", converts |-> TRUE],
     [n |-> n, continuation |-> "ok", converts |-> FALSE],
     [n |-> n, continuation |-> "error", converts |-> FALSE]}

\* the source streams: items numbered in their order
SourceStreams ==
    UNION {{s \in [1..len -> UNION {SourceItems(n) : n \in 1..MaxSource}] :
                \A i \in 1..len : s[i].n = i} : len \in 0..MaxSource}

NoItem == [n |-> 0, continuation |-> "none", converts |-> FALSE]

PipeInit ==
    /\ pipe_pc = "new"
    /\ pipe_source = <<>>
    /\ pipe_taken = <<>>
    /\ pipe_value = "none"
    /\ pipe_channel = <<>>
    /\ pipe_result = <<>>
    /\ pipe_receiver = "open"

\* talk_pipe_stream(source_stream, process_value): the channel is made and
\* the continuation is run on a runtime
talk_pipe_stream(source_stream) ==
    /\ pipe_pc = "new"
    /\ pipe_source' = source_stream
    /\ pipe_pc' = "next"
    /\ UNCHANGED <<pipe_taken, pipe_value, pipe_channel, pipe_result, pipe_receiver>>
    /\ OutsidePipe

\* talk_pipe_process_next_value: source_stream.next().await; the end of the
\* source stops the iteration
talk_pipe_process_next_value ==
    /\ pipe_pc = "next"
    /\ IF pipe_source # <<>>
       THEN /\ pipe_taken' = Append(pipe_taken, Head(pipe_source))
            /\ pipe_source' = Tail(pipe_source)
            /\ pipe_pc' = "process"
       ELSE /\ pipe_pc' = "stopped"
            /\ UNCHANGED <<pipe_source, pipe_taken>>
    /\ UNCHANGED <<pipe_value, pipe_channel, pipe_result, pipe_receiver>>
    /\ OutsidePipe

\* TNewItemType::try_from_talk_value(value, talk_context)
try_from_talk_value(item) ==
    IF item.converts THEN [ok |-> TRUE, n |-> item.n, error |-> "None"]
    ELSE [ok |-> FALSE, n |-> item.n, error |-> "NotConvertible"]

\* the continuation of process_value has run: and_then_soon_if_ok passes an
\* error value on without calling its function, and any other value is
\* converted and is to be sent
process_value ==
    /\ pipe_pc = "process"
    /\ LET item == pipe_taken[Len(pipe_taken)]
       IN  IF item.continuation = "error"
           THEN /\ pipe_pc' = "result_is_error"
                /\ UNCHANGED pipe_value
           ELSE /\ pipe_pc' = "send"
                /\ pipe_value' = try_from_talk_value(item)
    /\ UNCHANGED <<pipe_source, pipe_taken, pipe_channel, pipe_result, pipe_receiver>>
    /\ OutsidePipe

\* the poll of the send.  With the receiver gone poll_ready gives the error
\* of a closed channel: the value is dropped unsent and the continuation ends
\* in TalkError::StreamClosed, an error value.  Otherwise start_send once the
\* channel is ready, which it is while it holds fewer messages than its buffer
\* and its one sender allow; until then the poll is Pending.
send_value ==
    /\ pipe_pc = "send"
    /\ IF pipe_receiver = "dropped"
       THEN /\ pipe_pc' = "result_is_error"
            /\ UNCHANGED pipe_channel
       ELSE /\ Len(pipe_channel) < channel_buffer + 1
            /\ pipe_channel' = Append(pipe_channel, pipe_value)
            /\ pipe_pc' = "next"
    /\ pipe_value' = "none"
    /\ UNCHANGED <<pipe_source, pipe_taken, pipe_result, pipe_receiver>>
    /\ OutsidePipe

\* and_then_soon of talk_pipe_process_next_value: result.is_error() stops
\* the stream
stop_on_error ==
    /\ pipe_pc = "result_is_error"
    /\ pipe_pc' = "stopped"
    /\ UNCHANGED <<pipe_source, pipe_taken, pipe_value, pipe_channel, pipe_result, pipe_receiver>>
    /\ OutsidePipe

\* the owner of the result stream reads its next item
receiver_next ==
    /\ pipe_receiver = "open"
    /\ pipe_channel # <<>>
    /\ pipe_result' = Append(pipe_result, Head(pipe_channel))
    /\ pipe_channel' = Tail(pipe_channel)
    /\ UNCHANGED <<pipe_pc, pipe_source, pipe_taken, pipe_value, pipe_receiver>>
    /\ OutsidePipe

\* the owner of the result stream drops it: the channel closes and the
\* messages that wait in it go with it
receiver_dropped ==
    /\ pipe_pc # "new"
    /\ pipe_receiver = "open"
    /\ pipe_receiver' = "dropped"
    /\ pipe_channel' = <<>>
    /\ UNCHANGED <<pipe_pc, pipe_source, pipe_taken, pipe_value, pipe_result>>
    /\ OutsidePipe

NextPipe ==
    \/ \E source_stream \in SourceStreams : talk_pipe_stream(source_stream)
    \/ talk_pipe_process_next_value
    \/ process_value
    \/ send_value
    \/ stop_on_error
    \/ receiver_next
    \/ receiver_dropped

Init == RtInit /\ RefInit /\ DispatchInit /\ ClassInit /\ ChainInit /\ SigInit /\ RegistryInit /\ SceneInit /\ SubscribersInit /\ IdleInit /\ NamesInit /\ SerializationInit /\ FiltersInit /\ ConvertersInit /\ CommandsInit /\ SubclassInit /\ RetargetInit /\ AllocatorInit /\ PipeInit

Next ==
    \/ \E f \in Futures, c \in Continuations : run_continuation(f, c)
    \/ drop_runtime
    \/ \E f \in Futures : poll_now(f)
    \/ \E f \in Futures : poll_begin(f)
    \/ \E f \in Futures : poll_try_lock(f)
    \/ \E f \in Futures : poll_lock_future(f)
    \/ \E f \in Futures : poll_register(f)
    \/ \E f \in Futures : poll_retry(f)
    \/ \E f \in Futures : poll_later(f)
    \/ \E f \in Futures : drop_future(f)

Spec == Init /\ [][Next]_vars

SpecRefs == Init /\ [][NextRefs]_vars

SpecOwned == Init /\ [][NextOwned]_vars

SpecDispatch == Init /\ [][NextDispatch]_vars

SpecClass == Init /\ [][NextClass]_vars

SpecChain == Init /\ [][NextChain]_vars

SpecSignatures == Init /\ [][NextSignatures]_vars

SpecRegistry == Init /\ [][NextRegistry]_vars

SpecScene == Init /\ [][NextScene]_vars

SpecSubscribers == Init /\ [][NextSubscribers]_vars

\* the scene polls every subprogram that is awake, and notices when none is
SpecIdle == Init /\ [][NextIdle]_vars /\ WF_vars(NextIdle)

SpecNames == Init /\ [][NextNames]_vars

SpecSerialization == Init /\ [][NextSerialization]_vars

SpecFilterInstall == Init /\ [][NextFilterInstall]_vars

SpecFilters == Init /\ [][NextFilters]_vars

SpecConverters == Init /\ [][NextConverters]_vars

SpecDisplay == Init /\ [][NextDisplay]_vars

SpecCommands == Init /\ [][NextCommands]_vars

SpecSubclass == Init /\ [][NextSubclass]_vars

SpecRetargets == Init /\ [][NextRetargets]_vars

SpecAllocator == Init /\ [][NextAllocator]_vars

SpecPipe == Init /\ [][NextPipe]_vars

\* ------------------------------------------------------------ claims, runtime

\* Invocations of its body a continuation needs to reach Ready(value).
StepsToReady(c) ==
    IF c.kind = "Ready" THEN 0 ELSE IF c.kind = "Soon" THEN 1 ELSE c.pending + 1

\* C1: at any moment at most one future is executing a continuation step (a
\* Soon body or a Later poll function) with access to the TalkContext.
C1_StepsSerialised ==
    Cardinality({f \in Futures : pc[f] = "later"}) <= 1

\* One future is inside its step while another one, polled on another thread,
\* has failed to take the lock and is registering as a waiter.
C1_Witness ==
    \E f, g \in Futures : pc[f] = "later" /\ pc[g] \in {"register", "retry"}

\* C2: a step runs only under the context lock, the lock is not held between
\* polls (a Pending result gives it back), a Ready continuation never takes the
\* lock, a Soon body runs at most once, and a future that completed with a value
\* completed with the continuation's value after exactly the steps that lead
\* to Ready.
C2_CompletesAfterReady ==
    \A f \in Futures :
        /\ pc[f] = "later" => guard[f] /\ locked
        /\ pc[f] \in {"none", "idle", "done", "dropped"} => ~guard[f]
        /\ continuation[f].kind = "Ready" => calls[f] = 0 /\ ~InPoll(f) /\ ~acquire_context[f]
        /\ continuation[f].kind = "Soon" => calls[f] <= 1
        /\ (pc[f] = "done" /\ result[f] # RuntimeDropped) =>
                /\ result[f] = continuation[f].value
                /\ calls[f] = StepsToReady(continuation[f])
        /\ pc[f] # "done" => result[f] = NoResult

\* A Later that answered Pending at least once has completed with its value.
C2_Witness ==
    \E f \in Futures :
        /\ pc[f] = "done" /\ result[f] = continuation[f].value
        /\ continuation[f].kind = "Later" /\ calls[f] >= 2

\* C3 (the claim, for the continuations that need the context): a poll that
\* starts once the TalkRuntime has been dropped completes at once with
\* Error(RuntimeDropped) and runs no step of the continuation.
C3_DroppedRuntimeAborts ==
    [][\A f \in Futures :
          (~runtime_alive /\ pc[f] = "idle" /\ pc'[f] \notin {"idle", "dropped"}
              /\ continuation[f].kind \in {"Soon", "Later"})
          => (pc'[f] = "done" /\ result'[f] = RuntimeDropped)]_vars

\* C4: a future dropped between two polls holds neither the guard nor a waiter
\* slot nor a lock future, no step of it runs afterwards, and the wake-up it may
\* have been given is not lost: whenever the lock is free and a live future is
\* registered as waiting, some future is being polled or has been woken.
C4_DropState ==
    /\ \A f \in Futures :
          pc[f] = "dropped" => ~guard[f] /\ ~acquire_context[f] /\ waiters[f] = "none"
    /\ (~locked /\ \E g \in Futures : Live(g) /\ waiters[g] = "waiting")
          => \E h \in Futures :
                InPoll(h) \/ (pc[h] = "idle" /\ waiters[h] = "woken" /\ notified[h])

C4_DropIsSafe ==
    /\ []C4_DropState
    /\ [][\A f \in Futures :
            pc[f] = "dropped" => pc'[f] = "dropped" /\ calls'[f] = calls[f]]_vars

\* A Later was dropped after it answered Pending, and another future has
\* since taken the context lock.
C4_Witness ==
    \E f, g \in Futures :
        /\ pc[f] = "dropped" /\ continuation[f].kind = "Later" /\ calls[f] = 1
        /\ pc[g] = "later" /\ calls[g] = 0

\* --------------------------------------------------------- claims, references

Count(ctx, r) ==
    IF r.class = "ScriptClass" THEN ctx.reference_counts[r.handle]
    ELSE ctx.cell_counts[r.handle]

IsLive(ctx, r) ==
    IF r.class = "ScriptClass" THEN ctx.data[r.handle].state = "live"
    ELSE ctx.cell_blocks[r.handle] = "live"

\* The live script classes whose superclass reference is r.
Subclasses(ctx, r) ==
    IF r.class = "ScriptClass"
    THEN {h \in Handles : /\ ctx.data[h].state = "live"
                          /\ ctx.data[h].superclass_script_class = r.handle}
    ELSE {}

\* References to r inside the value a clone or a wrapper currently carries,
\* and the one the body of a `subclass` continuation has retained and not yet
\* stored as a superclass link.
InFlight(r) ==
    (IF phase = "cloned" THEN Occurrences(cloned, r) ELSE 0)
    + (IF owned_state \in {"owned", "leaked", "resent"} THEN Occurrences(owned, r) ELSE 0)
    + (IF phase = "soon" /\ r = Reference("ScriptClass", soon_parent) THEN 1 ELSE 0)

\* C5: whatever sequence of add_reference and remove_reference a handle has
\* seen, its data is live exactly while its count is at least 1 (it is freed
\* when the count reaches 0 and never while the count is positive), the count
\* is the number of references in existence (held by the host, carried by a
\* clone or a wrapper, retained by the running body of a `subclass`
\* continuation, or kept as a superclass link), and so every reference that
\* exists is valid.
C5_FreedExactlyAtZero ==
    \A r \in CountedReferences :
        /\ IsLive(talk_context, r) <=> Count(talk_context, r) >= 1
        /\ Count(talk_context, r) =
              held[r] + InFlight(r) + Cardinality(Subclasses(talk_context, r))
        /\ r.class = "ScriptClass" =>
              (retrieve(talk_context, r.class, r.handle) = "data"
                  <=> Count(talk_context, r) >= 1)

\* C6: once a value has been cloned every handle counts one more per
\* occurrence of its reference in the value, at any depth of nesting; once the
\* clone has been released the context is what it was before the clone.
C6_CloneReleaseRoundTrip ==
    /\ phase = "cloned" =>
          /\ \A r \in CountedReferences :
                Count(talk_context, r) = Count(before, r) + Occurrences(cloned, r)
          /\ talk_context.data = before.data
          /\ talk_context.cell_blocks = before.cell_blocks
    /\ phase = "released" => talk_context = before

\* The clone of an array that nests an array, with one reference occurring at
\* both depths, has been released.
C6_Witness ==
    /\ phase = "released"
    /\ cloned.tag = "Array"
    /\ \E i \in DOMAIN cloned.array : cloned.array[i].tag = "Array"
    /\ \E r \in CountedReferences : Occurrences(cloned, r) = 2

\* C7: while a wrapper holds its value, and after the wrapper was leaked until
\* the receiver lets go of the value, nothing of the value has been released;
\* once the value is gone (at the scope exit of the wrapper or of the wrapper
\* the receiving dispatch built, or with the continuation the leaked value
\* had moved into) every reference of the value has been released exactly
\* once, not twice and not never: each count is down by the occurrences of
\* the reference in the value and by the superclass links of the classes that
\* this freed.
C7_ReleasedExactlyOnce ==
    /\ owned_state \in {"owned", "leaked", "resent"} => talk_context = before
    /\ owned_state \in {"dropped", "dropped_by_receiver", "lost"} =>
          \A r \in CountedReferences :
              /\ Count(talk_context, r) =
                    Count(before, r) - Occurrences(owned, r)
                    - Cardinality(Subclasses(before, r) \ Subclasses(talk_context, r))
              /\ IsLive(talk_context, r) <=> Count(talk_context, r) >= 1

\* C8 (the claim): retrieve of a handle that has been released panics.
C8_RetrieveReleasedPanics ==
    retrieved.released => retrieved.outcome = "panic"

\* ----------------------------------------------------------- claims, dispatch

\* C9: send_message of a signature that has no binding, to a table whose
\* not-supported action was never replaced, answers a continuation that is
\* Ready with Error(MessageNotSupported(s)) for the signature s of the message,
\* whatever the receiver and the arguments.
C9_NotSupportedFallback ==
    (sent.op = "send_message" /\ sent.bound = NoAction /\ sent.fallback = "default")
        => sent.answer = MessageNotSupported(sent.id)

\* A message with arguments and a signature other than the first was sent to a
\* table that binds other signatures but not this one.
C9_Witness ==
    /\ sent.op = "send_message" /\ sent.bound = NoAction /\ not_supported = "default"
    /\ sent.id # 1 /\ sent.args # <<>>
    /\ \E id \in SignatureIds : message_action[id] # NoAction
    /\ sent.answer.kind = "Ready" /\ sent.answer.id = sent.id

\* C10: try_send_message answers the continuation of the bound action exactly
\* when the signature is bound, and None without a call of the not-supported
\* action otherwise; send_message calls the bound action when there is one and
\* otherwise the not-supported action, once, with the signature id of the
\* message; the action dispatched is the one most recently defined for the
\* signature.
C10_DispatchesLatestBinding ==
    /\ \A id \in SignatureIds : message_action[id] = defined[id]
    /\ sent.op # "none" =>
          /\ sent.bound = defined[sent.id]
          /\ sent.bound # NoAction =>
                /\ sent.answer = call_action(defined[sent.id], sent.target, sent.args)
                /\ sent.action_calls = 1 /\ sent.not_supported_calls = 0
    /\ (sent.op = "try_send_message" /\ sent.bound = NoAction) =>
          sent.answer = None /\ sent.not_supported_calls = 0 /\ sent.action_calls = 0
    /\ (sent.op = "send_message" /\ sent.bound = NoAction) =>
          /\ sent.not_supported_calls = 1 /\ sent.action_calls = 0
          /\ sent.not_supported_id = sent.id
          /\ sent.answer = call_not_supported(not_supported, sent.target, sent.id, sent.args)

\* try_send_message found no binding in a table whose not-supported action
\* was replaced, while another signature had been defined twice.
C10_Witness ==
    /\ sent.op = "try_send_message" /\ sent.bound = NoAction /\ sent.answer = None
    /\ not_supported = "custom"
    /\ \E id \in SignatureIds : message_action[id] = 2

\* -------------------------------------------------------------- claims, class

\* C11: a message sent through the callbacks of a class whose signature the
\* definition's default table binds is answered by that binding and the
\* definition is not called; any other message reaches send_instance_message
\* once with the signature id and arguments of the message, the reference
\* (class id, handle) of the receiver and the data the allocator holds for the
\* handle; the class table does the same with send_class_message and the class
\* id.
C11_UnboundReachesDefinition ==
    LET m == delivered.message
        definition == class_callbacks.definition
    IN  /\ delivered.table = "instance" =>
              IF definition.instance[m.id] # NoAction
              THEN /\ m.answer = ActionContinuation(definition.instance[m.id], m.target, m.args)
                   /\ m.not_supported_calls = 0
              ELSE /\ m.not_supported_calls = 1
                   /\ allocator[m.target.handle] # "released" =>
                         /\ m.answer.kind = "send_instance_message"
                         /\ m.answer.id = m.id /\ m.answer.args = m.args
                         /\ m.answer.target.class = class_callbacks.class_id
                         /\ m.answer.target.handle = m.target.handle
                         /\ m.answer.value = allocator[m.target.handle]
        /\ delivered.table = "class" =>
              IF definition.class[m.id] # NoAction
              THEN /\ m.answer = ActionContinuation(definition.class[m.id], Unit, m.args)
                   /\ m.not_supported_calls = 0
              ELSE /\ m.not_supported_calls = 1
                   /\ m.answer.kind = "send_class_message"
                   /\ m.answer.id = m.id /\ m.answer.args = m.args
                   /\ m.answer.target = class_callbacks.class_id

\* ------------------------------------------------------- claims, continuations

\* The first place of a chain that makes an error: 0 for the head, k for the
\* function k, Len + 1 when there is none.
RECURSIVE FirstError(_, _, _)
FirstError(head_value, fns, k) ==
    IF k = 0 THEN (IF head_value.error THEN 0 ELSE FirstError(head_value, fns, 1))
    ELSE IF k > Len(fns) THEN k
    ELSE IF fns[k].error THEN k
    ELSE FirstError(head_value, fns, k + 1)

\* C12: once a chain of and_then_if_ok / and_then_soon_if_ok has resolved, if
\* the head (Ready, Soon or Later) or a function made an error the chain
\* resolved to the first error, every function before it was called exactly
\* once and none after it was called; without an error every function was
\* called exactly once and the chain resolved to the value of the last one.
\* While the chain is being resolved no function is called twice.
C12_ErrorShortCircuits ==
    /\ \A k \in DOMAIN chain_calls : chain_calls[k] <= 1
    /\ chain_result # NoValue =>
          LET n == Len(chain_fns)
              first == FirstError(chain_head.value, chain_fns, 0)
          IN  /\ first = 0 => chain_result = chain_head.value
              /\ \A k \in 1..n : chain_calls[k] = (IF k <= first THEN 1 ELSE 0)
              /\ first \in 1..n => chain_result = Error(first)
              /\ first = n + 1 => chain_result = Ok(n)

\* A chain of two functions behind a Later resolved to the error of the first
\* function, without a call of the second.
C12_Witness ==
    /\ chain_result = Error(1) /\ chain_head.kind = "Later"
    /\ Len(chain_fns) = 2 /\ chain_calls = <<1, 0>>
    /\ chain_fns[2].combinator = "and_then_soon_if_ok"

\* ------------------------------------------------- claims, signature interning

\* C13: in every reachable state, with TalkMessageSignature::id called from
\* several threads at once, the signature table is a bijection: an id that
\* id() has returned converts back to the signature it was returned for, two
\* signatures have the same id exactly when they are the same signature, and
\* a signature is never returned a second id.
C13_SignatureTableBijection ==
    /\ \A p \in returned : HashMap_get(signature_for_id, p[2], NoSignature) = p[1]
    /\ \A p, q \in returned : (p[1] = q[1]) <=> (p[2] = q[2])
    /\ \A c \in converted : <<c[2], c[1]>> \in returned

\* two signatures are interned and converted back while one thread is halfway
\* through interning a third and another waits for the table with the same one
C13_Witness ==
    /\ Cardinality(returned) >= 2
    /\ Cardinality(converted) >= 2
    /\ \E t, u \in Threads :
          /\ sig_pc[t] = "insert_reverse"
          /\ sig_pc[u] = "lock"
          /\ sig_arg[u] = sig_arg[t]

\* --------------------------------------------------- claims, class registry

\* class ids that a create call in progress has been given
ClassIdsInProgress == {create_idx[t] : t \in {u \in Creators : create_pc[u] # "idle"}}

\* C14: for any interleaving of concurrent TalkClass::create calls, no two
\* calls return the same class id, the ids handed out are 0, 1, 2, ... with
\* no gap, and once create has returned class c the definition and the
\* callbacks registered for c are found under c in every later state.
C14_ClassIdsUniqueAndDurable ==
    /\ \A i, j \in DOMAIN create_log :
          create_log[i].class = create_log[j].class => i = j
    /\ {create_log[i].class : i \in DOMAIN create_log} \cup ClassIdsInProgress
          = 0..(NEXT_CLASS_ID - 1)
    /\ \A i \in DOMAIN create_log :
          /\ class_definition(create_log[i].class) = create_log[i].definition
          /\ make_local_callbacks(create_log[i].class)
                = TalkClassCallbacks(create_log[i].class, create_log[i].definition)

\* the call of another thread that was given id 1 has returned while the
\* create that `new` called on the context's thread was given id 0 and has
\* not stored anything yet
C14_Witness ==
    /\ Len(create_log) >= 1
    /\ create_log[1].class = 1
    /\ phase = "new"
    /\ create_idx[ContextThread] = 0 /\ create_pc[ContextThread] = "lock_definitions"
    /\ NEXT_CLASS_ID >= 2

\* ----------------------------------------------------- claims, subclassing

\* the step stores script class n as a subclass of script class p
Subclassed(p, n) ==
    /\ talk_context.data[n].state # "live"
    /\ talk_context'.data[n].state = "live"
    /\ talk_context'.data[n].superclass_script_class = p

\* the step releases script class n, whose superclass is p, to zero
ReleasedToZero(p, n) ==
    /\ talk_context.data[n] = TalkScriptClass(p)
    /\ talk_context'.data[n].state # "live"

\* the references to p that the step takes away other than by freeing n: the
\* host's own, the ones in a wrapper being dropped, the link of another class
NoOtherReleaseOf(p, n) ==
    /\ held'[Reference("ScriptClass", p)] = held[Reference("ScriptClass", p)]
    /\ owned_state \in {"owned", "resent"} /\ owned_state' # owned_state
          => Occurrences(owned, Reference("ScriptClass", p)) = 0
    /\ \A m \in Handles \ {n} : ~ReleasedToZero(p, m)

\* C15: `subclass` sent to script class P stores a new script class N, other
\* than P, whose reference has the script class class and whose superclass
\* reference is P; the message leaves P with exactly one count more, for the
\* superclass link (the continuation raises the count by one and the store of
\* N leaves it there); and when N is released to zero P counts exactly one
\* less.
C15_SubclassRetainsParent ==
    [][\A p, n \in Handles :
          /\ subclass_soon /\ p = soon_parent =>
                talk_context'.reference_counts[p] = talk_context.reference_counts[p] + 1
          /\ Subclassed(p, n) =>
                /\ n # p
                /\ talk_context'.data[n] = TalkScriptClass(p)
                /\ talk_context'.reference_counts[n] = 1
                /\ held'[Reference("ScriptClass", n)] = 1
                /\ phase = "soon" /\ p = soon_parent
                /\ talk_context'.reference_counts[p] = talk_context.reference_counts[p]
          /\ ReleasedToZero(p, n) /\ NoOtherReleaseOf(p, n) =>
                /\ talk_context'.reference_counts[n] = 0
                /\ talk_context'.reference_counts[p] = talk_context.reference_counts[p] - 1
    ]_vars

\* ---------------------------------------------------- claims, scene streams

\* the numbers of the messages of producer p in a sequence, in its order
RECURSIVE NumbersFrom(_, _)
NumbersFrom(messages, p) ==
    IF messages = <<>> THEN <<>>
    ELSE (IF Head(messages).from = p THEN <<Head(messages).n>> ELSE <<>>)
            \o NumbersFrom(Tail(messages), p)

\* the messages of producer p that have reached consumer c: the ones read,
\* then the ones waiting in the input stream, oldest first
Arrived(c, p) == received[c][p] \o NumbersFrom(input_core[c].waiting_messages, p)

\* the numbers are in sending order
Ascending(numbers) == \A i, j \in DOMAIN numbers : i < j => numbers[i] < numbers[j]

\* how many times message n of producer p has reached consumer c
Copies(c, p, n) == Cardinality({i \in DOMAIN Arrived(c, p) : Arrived(c, p)[i] = n})

\* C16: the messages of a producer reach a consumer in the order the
\* producer sent them, whatever the buffer size and whatever other producers
\* send in between; every message whose send has returned has arrived once
\* and only once, and no other message has arrived.
C16_FifoPerProducer ==
    \A p \in Producers :
        /\ \A c \in Consumers : Ascending(Arrived(c, p))
        /\ \A n \in 1..MaxMessages :
              SumOver([c \in Consumers |-> Copies(c, p, n)], Consumers)
                 = IF n < next_message[p] THEN 1 ELSE 0

\* both producers have sent to one consumer whose buffer holds one message
\* at a time, one of them two messages; the consumer has read every message
C16_Witness ==
    \E c \in Consumers :
        /\ input_core[c].max_waiting = 0
        /\ \A p \in Producers : received[c][p] # <<>>
        /\ \E p \in Producers : received[c][p] = <<1, 2>>
        /\ \A p \in Producers : send_pc[p] = "idle" /\ Len(received[c][p]) = next_message[p] - 1

\* C17: a rule installed for a key (source, stream) that has a rule replaces
\* it, so that no key ever has two rules; every sink of the key is connected
\* to the new target and a sender blocked on it is woken, so that no sender
\* stays parked on a sink that has a target with a free slot; and a message
\* pushed from then on reaches the new target, once, and not the old one.
C17_RetargetReplacesRule ==
    /\ \A r1, r2 \in connections : r1.source = r2.source => r1 = r2
    /\ \A p \in Producers :
          /\ output_sink[p].target = resolve(connections, p)
          /\ send_pc[p] = "parked" =>
                \/ output_sink[p].target = Disconnected
                \/ ~has_slot(input_core[output_sink[p].target.input])
          /\ \A n \in 1..MaxMessages :
                SumOver([c \in Consumers |-> Copies(c, p, n)], Consumers) <= 1
    /\ \A c \in Consumers : \A i \in DOMAIN input_core[c].waiting_messages :
          input_core[c].waiting_messages[i].rule = c

\* a producer's first message went to c1; its second send was parked, the
\* rule of its key was replaced by one to c2, and the woken sender pushed the
\* message to c2: nothing has been read, so only the new rule woke it
C17_Witness ==
    \E p \in Producers :
        /\ connections = {[source |-> Program(p), target |-> "c2"]}
        /\ connects = 2
        /\ received = [c \in Consumers |-> [q \in Producers |-> <<>>]]
        /\ NumbersFrom(input_core["c1"].waiting_messages, p) = <<1>>
        /\ \E i \in DOMAIN input_core["c2"].waiting_messages :
              LET message == input_core["c2"].waiting_messages[i]
              IN  message.from = p /\ message.n = 2 /\ message.woken

\* ---------------------------------------------------- claims, subscriptions

\* the senders of the last broadcast whose send succeeded
Succeeded == {i \in DOMAIN last_send.results : last_send.results[i][2] = "Ok"}

\* the subscribers of a list at the given positions, in the order of the list
RECURSIVE Accepted(_, _, _)
Accepted(subscribers, positions, i) ==
    IF i > Len(subscribers) THEN <<>>
    ELSE (IF i \in positions THEN <<subscribers[i]>> ELSE <<>>)
            \o Accepted(subscribers, positions, i + 1)

\* C18: EventSubscribers::send returns true exactly when the send to at
\* least one subscriber succeeded: false without subscribers, false when
\* every send failed.
C18_TrueIffSomeoneAccepted ==
    last_send.sent =>
        /\ last_send.returned <=> Succeeded # {}
        /\ \A i \in DOMAIN last_send.receivers :
              i \notin Succeeded => last_send.receivers[i] \in ended

\* a broadcast to three subscribers of which only the middle one accepts
C18_Witness ==
    /\ last_send.sent
    /\ Len(last_send.receivers) = 3
    /\ Succeeded = {2}
    /\ last_send.receivers[1] \in ended
    /\ last_send.receivers[3] \in ended
    /\ last_send.returned

\* C19: once EventSubscribers::send has completed, the list holds exactly
\* the subscribers whose send succeeded, in the order they had: each one
\* whose send failed is gone and none whose send succeeded is, however many
\* failed and wherever they were in the list.
C19_FailedSubscribersRemoved ==
    last_send.sent => receivers = Accepted(last_send.receivers, Succeeded, 1)

\* a broadcast to three subscribers, the first two of which failed, has left
\* the third
C19_Witness ==
    /\ last_send.sent
    /\ Len(last_send.receivers) = 3
    /\ Succeeded = {3}
    /\ last_send.receivers[1] \in ended
    /\ last_send.receivers[2] \in ended
    /\ last_send.receivers[1] # last_send.receivers[2]
    /\ receivers = <<last_send.receivers[3]>>

\* ------------------------------------------------ claims, idle notification

\* every subprogram is waiting, and those that have an input stream have no
\* message left to process
SceneIdle ==
    /\ awake = {}
    /\ \A s \in SubProgramIds : body[s] = "reads" => inbox[s] = 0

\* the requests for a target that have not been answered yet
Outstanding(target) == Requests(idle_inbox, target) + Requests(when_idle, target)

C21_NamesInterned ==
    /\ \A p \in named, q \in named : (p[2] = q[2]) <=> (p[1] = q[1])
    /\ \A p \in named : name_for_id(p[2]) = p[1]

\* C22: a named id serialises as its name, the name deserialises as the id that
\* is interned for it, and so every named id that is serialised and then
\* deserialised comes back as itself
C22_SerializeRoundTrip ==
    \A r \in round_trips :
        /\ <<r.name, r.id>> \in named
        /\ r.back = r.id

\* ------------------------------------------------- claims, serializer registries

\* C23: whatever install_serializable_type and install_serializers calls were
\* made, a serialization type name identifies a single message type: no name is
\* registered for two message types, and send_serialized resolves a name to the
\* message type it was registered for first
C23_NameIdentifiesOneType ==
    /\ \A p \in SERIALIZABLE_MESSAGE_TYPE_NAMES, q \in SERIALIZABLE_MESSAGE_TYPE_NAMES :
            p[2] = q[2] => p[1] = q[1]
    /\ \A p \in SEND_SERIALIZED : p[2] = first_type[p[1][2]]
    /\ \A p \in resolved : p[2] = first_type[p[1]]

\* C24: installing filters is idempotent, however the calls of several threads
\* interleave: the serializer_filter calls for one (source, target) all return
\* one handle, and install_serializers creates one pair of filters at most for a
\* (message type, serializer) and every call for it uses that pair
C24_FilterInstallationIdempotent ==
    \A p \in filters, q \in filters :
        (p.key = q.key /\ (p.call = "serializer_filter") = (q.call = "serializer_filter"))
            => p.filter = q.filter

\* two threads are in install_serializers for one message type at once and
\* both use the one pair of filters that was created for it
C24_Witness ==
    \E p \in filters, t \in Threads, u \in Threads :
        /\ p.call = "created"
        /\ t # u
        /\ installing[t].at = "send_serialized"
        /\ installing[t].filters = p.filter
        /\ installing[u].at = "send_serialized"
        /\ installing[u].filters = p.filter
        /\ installs = 2

\* --------------------------------------------------- claims, serializer filters

\* the messages of a sequence of TestMessage values that serialize
Serializable(messages) == SelectSeq(messages, LAMBDA message : message # "Unserializable")

\* the messages of a sequence of serialized messages that are a TestMessage
Decodable(messages) ==
    SelectSeq(messages, LAMBDA message : message.type = "TestMessage" /\ message.value.json \in {"Test", "Again"})

\* C25: the serializer filter of TestMessage emits one SerializedMessage, with
\* the serialized value and the type id of TestMessage, for every message
\* that serializes, in the order of its input, and nothing for a message
\* that fails to serialize; the messages after a failure are emitted all the same
C25_SerializerFilterOutput ==
    /\ Len(serializer_output) = Len(Serializable(serializer_input))
    /\ \A i \in 1..Len(serializer_output) :
        /\ serializer_output[i].value.json = Serializable(serializer_input)[i]
        /\ serializer_output[i].type = "TestMessage"

\* a message was emitted after a message that failed to serialize
C25_Witness ==
    /\ Len(serializer_input) = 3
    /\ serializer_input[2] = "Unserializable"
    /\ Len(serializer_output) = 2
    /\ serializer_output[2].value.json = serializer_input[3]

\* C26: the deserializer filter of TestMessage emits a TestMessage for the
\* messages that carry the type id of TestMessage and a value that decodes, and
\* for no other message, in the order of its input; the messages after one that
\* is dropped are emitted all the same
C26_DeserializerFilterOutput ==
    /\ Len(deserializer_output) = Len(Decodable(deserializer_input))
    /\ \A i \in 1..Len(deserializer_output) :
        deserializer_output[i] = Decodable(deserializer_input)[i].value.json

\* a message of another type whose value would decode, and a value that does
\* not decode, were dropped and the message after them was emitted
C26_Witness ==
    /\ Len(deserializer_input) = 3
    /\ deserializer_input[1] = [value |-> [json |-> "Test"], type |-> "OtherMessage"]
    /\ deserializer_input[2] = [value |-> [json |-> "null"], type |-> "TestMessage"]
    /\ deserializer_output = <<"Again">>

\* -------------------------------------------------- claims, message converters

\* the kinds of argument that a native type is read from
AcceptedKinds(native_type) ==
    CASE native_type = "bool" -> {"Bool"}
      [] native_type \in {"i32", "i64", "f32", "f64", "TalkNumber"} -> {"Int", "Float"}
      [] native_type \in {"String", "Arc<String>"} -> {"String"}
      [] native_type = "char" -> {"Character"}
      [] native_type = "TalkReference" -> {"Reference"}
      [] native_type = "TalkError" -> {"Error"}

\* the error of a native type for an argument of another kind
MismatchError(native_type) ==
    CASE native_type = "bool" -> "NotABoolean"
      [] native_type \in {"i32", "i64"} -> "NotAnInteger"
      [] native_type \in {"f32", "f64"} -> "NotAFloat"
      [] native_type = "TalkNumber" -> "NotANumber"
      [] native_type \in {"String", "Arc<String>"} -> "NotAString"
      [] native_type = "char" -> "NotACharacter"
      [] native_type = "TalkReference" -> "NotAReference"
      [] native_type = "TalkError" -> "NotAnError"

\* C27: from_message of a message with one argument of the wrong kind returns
\* the error of the native type and no value (NotABoolean for bool,
\* NotAnInteger for i32 and i64, NotAFloat for f32 and f64, NotANumber for
\* TalkNumber, NotAString for String, NotACharacter for char, NotAReference for
\* TalkReference, NotAnError for TalkError), and the readers of integers, floats
\* and numbers take an Int as well as a Float
C27_WrongKindGivesTypeError ==
    LET call == from_message_call IN
    (call.native_type \notin {"None", "()", "TalkValue"} /\ Len(call.message.args) = 1) =>
        IF call.message.args[1].kind \in AcceptedKinds(call.native_type)
        THEN call.result.ok
        ELSE ~call.result.ok /\ call.result.error = MismatchError(call.native_type)

\* an i32 was read from a Float
C27_Witness ==
    /\ from_message_call.native_type = "i32"
    /\ from_message_call.message.args = <<[kind |-> "Float", val |-> -25]>>
    /\ from_message_call.result.ok
    /\ from_message_call.result.value = -2

\* ------------------------------------------------------ claims, command stream

ResponseFrames == {display_response(r) : r \in CommandResponses} \ {"todo!()"}

\* C28: the output of display_command_responses starts with "\n\n> "; every
\* frame of a response comes after a "\n"; the prompt "\n> " is written every
\* time the input has no response at once after a response was displayed, and
\* at no other time, so never between two responses that were there at once;
\* and "\n\n.\n" is written once, as the last frame: it is what the output
\* ends with, whether the task ran to the end of its input or stopped before
C28_DisplayFrames ==
    /\ display_output # <<>> => display_output[1] = "\n\n> "
    /\ \A i \in DOMAIN display_output :
        /\ display_output[i] = "\n\n> " => i = 1
        /\ display_output[i] \in ResponseFrames => display_output[i - 1] = "\n"
        /\ display_output[i] = "\n> " =>
                \E p \in DOMAIN display_polls :
                    display_polls[p].poll = "Pending" /\ display_polls[p].at = i - 1
        /\ display_output[i] = "\n\n.\n" => (i = Len(display_output) /\ display_pc = "done")
    /\ \A p \in DOMAIN display_polls :
        LET at == display_polls[p].at IN
        /\ display_output[at] \in ResponseFrames
        /\ display_polls[p].poll = "Pending" => display_output[at + 1] = "\n> "
        /\ display_polls[p].poll = "Some" =>
                /\ display_output[at + 1] = "\n"
                /\ IF at + 2 \in DOMAIN display_output
                   THEN display_output[at + 2] \in ResponseFrames
                   ELSE display_pc = "response"
    /\ display_pc \in {"done", "panicked"} => display_output[Len(display_output)] = "\n\n.\n"

\* the lines of a sequence that are commands
CommandsOf(input) == SelectSeq(input, is_command)

ErrorFrames == {i \in DOMAIN display_output : display_output[i] = "!!! Not implemented yet\n"}

\* C29: the command processor generates one response for every command it
\* reads and reads no command after a response that could not be sent; and
\* when the session is over every command line that was written has its one
\* "!!! <error>" frame, each of them followed by a "\n" and the next response,
\* by the prompt "\n> " or by the end of the session
C29_OneResponsePerCommand ==
    /\ processor.sent <= processor.read
    /\ processor.read <= processor.sent + 1
    /\ processor.read = processor.sent + 1 => processor.state \in {"sending", "stopped"}
    /\ processor.state = "sending" => processor.read = processor.sent + 1
    /\ processor.state = "stopped" => display_pc = "dropped"
    /\ Cardinality(ErrorFrames) <= processor.sent
    /\ \A i \in ErrorFrames :
        i < Len(display_output) => display_output[i + 1] \in {"\n", "\n> ", "\n\n.\n"}
    /\ (display_pc = "done" /\ write_shutdown) =>
            Cardinality(ErrorFrames) = Len(CommandsOf(command_lines))

\* C30: after a parse error the parser is reset and the tokens up to the next
\* newline are dropped, so that every command on a later line is parsed and
\* yielded, in the order of the lines: once the input is shut down and the
\* stream of commands has ended, the commands that were yielded are the
\* command lines that were written
C30_ParsingGoesOnAfterError ==
    (parser.state = "done" /\ write_shutdown) => parser.yielded = CommandsOf(command_lines)

\* C40: from_message of a native type returns Ok only for a message that
\* supports_message of the type accepts: the unit type takes the unary message
\* `value` and nothing else, every other type the message `value:` with its
\* one argument and nothing else
C40_OkOnlyIfSupported ==
    (from_message_call.native_type # "None" /\ from_message_call.result.ok) =>
        supports_message(from_message_call.native_type, from_message_call.message.signature)

\* C39: a call of install_serializable_type that returns an error leaves the
\* registries of the process as they were: the table of the type names and the
\* table of the typed serializers are the same after the call as before it
C39_FailedInstallChangesNothing ==
    [][\A t \in Threads :
          /\ \A m \in MessageTypes, s \in Serializers, n \in TypeNames :
                (install_serializable_type(t, m, s, n) /\ installing'[t].at = "idle")
                    => UNCHANGED <<SERIALIZABLE_MESSAGE_TYPE_NAMES, TYPED_SERIALIZERS>>
          /\ (install_serializable_type_new_serializer(t) /\ installing'[t].at = "idle")
                => /\ HashMap_get(SERIALIZABLE_MESSAGE_TYPE_NAMES', installing[t].message_type, NoName)
                        = HashMap_get(installing[t].type_names, installing[t].message_type, NoName)
                   /\ UNCHANGED TYPED_SERIALIZERS
      ]_vars

\* the places of the output where a frame is
FramesOf(frame) == {i \in DOMAIN display_output : display_output[i] = frame}

\* C31: a BackgroundStream response is shown as the frame "<<< n" of a new
\* stream number n, then one frame "<n <json>" for every event of the stream,
\* in their order, then "<EOS n" when the stream closes, between the frames of
\* the later responses; the output task is neither blocked nor aborted by it
C31_BackgroundStreamFrames ==
    /\ display_pc # "panicked"
    /\ \A i \in FramesOf("<0 [1]") : \E j \in FramesOf("<<< 0") : j < i
    /\ \A i \in FramesOf("<EOS 0") : \A j \in FramesOf("<0 [1]") : j < i

\* how many times a handle is in a sequence of handles
TimesIn(handles, h) == Cardinality({i \in DOMAIN handles : handles[i] = h})

\* C36: when TalkReference::from_message or TalkValue::from_message returns an
\* error, every reference that the arguments of the message hold, the ones
\* inside an Array too, has been released exactly once; when it returns Ok,
\* nothing has been released and the result is the argument as it was
C36_ArgumentsReleasedOnError ==
    LET call == from_message_call
        in_arguments == release_values(call.message.args)
    IN  call.native_type \in {"TalkReference", "TalkValue"} =>
            IF call.result.ok
            THEN /\ call.released = <<>>
                 /\ call.result.value = IF call.native_type = "TalkReference"
                                        THEN call.message.args[1].val ELSE call.message.args[1]
            ELSE \A h \in 1..2 : TimesIn(call.released, h) = TimesIn(in_arguments, h)

\* C37: the arguments of every message given to send_message or to
\* try_send_message are released once or handed to one owner: they are put in
\* the scoped owner that the action or the not-supported action receives, and
\* when try_send_message finds no binding and answers None they are released
C37_ArgumentsOwnedOrReleased ==
    (sent.op \in {"send_message", "try_send_message"} /\ sent.args # <<>>) =>
        sent.args_owned

\* ------------------------------------------------ claims, deferred subclass

\* C38: add_reference is never applied to a handle whose count has reached
\* zero: the parent that the Soon step of `subclass` retains is still live
\* when the step runs, also when the sender has released its own reference to
\* the parent as soon as the dispatch of `subclass` returned the continuation
C38_RetainedParentIsLive ==
    [][subclass_soon =>
          /\ talk_context.reference_counts[soon_parent] >= 1
          /\ talk_context.data[soon_parent].state = "live"
    ]_vars

\* ------------------------------------------------ claims, retargets of a sink

\* the retargets that gave a waker to their caller
WakersReturned == Cardinality({i \in DOMAIN retargets : retargets[i].waker})

\* C35: every retarget of an output sink sets the new target and takes the
\* stored waker under one hold of the sink's mutex and gives that waker to its
\* caller: the target it leaves is Input, or CloseWhenDropped when
\* close_when_dropped is set, Discard or Disconnected; once it has returned no
\* waker is stored until the sender parks again; and every waker that a
\* sender parked is either still stored or was returned by exactly one
\* retarget, however the retargets of several threads fall
C35_RetargetTakesWaker ==
    /\ \A i \in DOMAIN retargets :
            retargets[i].target =
                CASE retargets[i].call.fn = "connect_output_to_input" ->
                        IF retargets[i].call.close_when_dropped
                        THEN CloseWhenDropped(retargets[i].call.input_stream)
                        ELSE Input(retargets[i].call.input_stream)
                  [] retargets[i].call.fn = "connect_output_to_discard" -> Discard
                  [] retargets[i].call.fn = "disconnect_output" -> Disconnected
    /\ WakersReturned + (IF sink_core.when_target_changed THEN 1 ELSE 0) = parks
    /\ (sink_lock = NoThread /\ sink_core.when_target_changed) => sink_core.target = Disconnected
    /\ \A t \in Threads : retarget_pc[t] # "idle" <=> sink_lock = t

\* a sender parked on the Disconnected sink, one thread connected the sink to
\* an input stream with close_when_dropped and got the waker, the sender
\* parked again after a disconnect_output and a third retarget got that waker
C35_Witness ==
    /\ Len(retargets) = 3
    /\ retargets[1].waker /\ retargets[1].target = CloseWhenDropped("c1")
    /\ retargets[2].call.fn = "disconnect_output" /\ ~retargets[2].waker
    /\ retargets[3].waker /\ retargets[3].thread # retargets[1].thread
    /\ parks = 2

\* ------------------------------------------------ claims, allocator mutex

\* C34: the mutex of a class's allocator is held only while the allocator
\* allocates, retrieves, retains or releases: it is free while
\* send_instance_message or the read function of a data reader runs, so that
\* code can use the allocator of its class or add a data reader and is never
\* stuck on a lock that its own caller holds
C34_AllocatorFreeInUserCode ==
    /\ user_code # NoUserCode => ~allocator_lock
    /\ user_stuck = "no"

\* ------------------------------------------------ claims, talk_pipe_stream

\* the items sent to the result stream so far, read or waiting in the channel
Emitted == pipe_result \o pipe_channel

\* what the result stream is to carry for an item of the source
ItemFor(item) ==
    IF item.continuation = "ok" /\ item.converts
    THEN [ok |-> TRUE, n |-> item.n]
    ELSE [ok |-> FALSE, n |-> item.n]

\* C32: for every item of the source, in the order of the source,
\* talk_pipe_stream runs the continuation of process_value and then sends one
\* item to the result stream: Ok(converted) when the continuation and the
\* conversion succeed and Err(error) when one of them gives an error; an
\* error does not end the stream.  This is asked of a result stream that
\* still has its owner.
C32_OneResultPerSourceItem ==
    pipe_receiver = "open" =>
        /\ pipe_pc \in {"next", "stopped"} =>
                /\ Len(Emitted) = Len(pipe_taken)
                /\ \A i \in DOMAIN pipe_taken :
                        /\ Emitted[i].ok = ItemFor(pipe_taken[i]).ok
                        /\ Emitted[i].n = ItemFor(pipe_taken[i]).n
        /\ pipe_pc = "stopped" => pipe_source = <<>>

====
